---- MODULE Spec2Model ----
(***************************************************************************)
(* Verification model of the theru-fleet-admin dashboard.                  *)
(*                                                                         *)
(* The dashboard is a React client of a REST store.  The model holds the   *)
(* state of the store (campaigns, ads, impressions), the state of          *)
(* CampaignsPage, the requests and responses in flight between the two,    *)
(* and the pure computations of the other pages (revenue, per-client       *)
(* aggregation, CSV export).  The store's handlers are not part of the     *)
(* repository's sources: they are modelled from the specification and are  *)
(* marked as such in the model map.                                        *)
(***************************************************************************)
EXTENDS Integers, Sequences, FiniteSets, Bags, TLC

VARIABLES
  \* ---- resource store (backend) ----
  dbCampaigns,      \* campaign id -> campaign record (present or not)
  dbAds,            \* set of ad ids that exist
  dbImpressions,    \* campaign id -> number of impression records of its ads
  \* ---- CampaignsPage.js (useState) ----
  campaigns,        \* campaign id -> campaign record as last loaded
  campaignStats,    \* campaign id -> stats row as last loaded
  loading,
  isDialogOpen,
  formData,
  selectedCampaign,
  isAdDialogOpen,
  campaignAds,
  \* ---- requests and responses in flight ----
  net,
  \* ---- observation (history) ----
  clean,            \* so far every status click was made on a reloaded list and succeeded
  clickLog,         \* while clean: campaign id -> statuses the status button asked for
  trail,            \* while clean: campaign id -> statuses the stored campaign went through
  now,              \* the current day
  \* ---- the router and the pages that show revenue ----
  route,                    \* the path whose page is mounted
  Dashboard_stats,          \* DashboardPage.js: stats
  Clients_campaignStats,    \* ClientsPage: campaignStats (the statsMap by client)
  Analytics_overview,       \* AnalyticsPage: overview
  Analytics_campaignStats,  \* AnalyticsPage: campaignStats (rows)
  Analytics_loading,        \* AnalyticsPage: loading
  statsRes,                 \* the rows of the last /analytics/campaigns response ClientsPage used
  exported,                 \* the records handleExportCampaignReport handed to convertToCSV
  sentParams,               \* names of the parameters the mounted page has sent
  pendingLoads,             \* loadData calls of the mounted page that still await their responses
  \* ---- convertToCSV ----
  csvData,                  \* its argument data
  csvFields,                \* its argument fields
  csvOut,                   \* its result, once called
  \* ---- CampaignsPage.js: the upload tab of the ad manager ----
  adFormFile,               \* adFormData.file
  isUploading,
  uploadProgress,
  strayInterval,            \* a progress interval of an earlier upload was never cleared
  \* ---- the identity provider, AuthContext.js, the router, the interceptor ----
  supabaseSession,          \* the provider's current session
  getSessionResult,         \* what the getSession() of the mount has answered, if it has
  Auth_session,             \* AuthContext.js: session
  Auth_user,                \* AuthContext.js: user
  Auth_loading,             \* AuthContext.js: loading
  Auth_userRole,            \* AuthContext.js: userRole
  location,                 \* the path in the address bar
  intercepting,             \* urls of the calls whose interceptor awaits getSession
  sent,                     \* the request last handed to the network
  Login_loading,            \* LoginPage: loading
  signIn,                   \* the signInWithPassword of handleLogin: none, pending, ok, error
  \* ---- the store's devices and drivers, the pages that poll the device list ----
  clock,                    \* the time, in units of ten seconds
  threshold,                \* the staleness threshold T of the sweep
  dbDevices,                \* device id -> device record (present or not)
  dbDrivers,                \* set of driver ids that exist
  fleetNet,                 \* requests and responses in flight
  mounted,                  \* the polling page that is mounted, "" if none
  instance,                 \* the number of mounts so far
  interval,                 \* when the interval timer fires next
  devices,                  \* DevicesPage.js, DashboardPage.js: devices
  dataAt,                   \* when the store read the devices shown
  shownOf,                  \* when the load was issued whose response is shown
  Devices_filter,           \* DevicesPage.js: filter
  Devices_cityFilter,       \* DevicesPage.js: cityFilter
  Analytics_selectedCampaign, \* AnalyticsPage: selectedCampaign
  Analytics_dateRange,      \* AnalyticsPage: dateRange
  Analytics_impressions,    \* AnalyticsPage: impressions
  shownParams,              \* the parameters of the request whose response impressions holds
  exportData,               \* the rows last handed to convertToCSV by handleExportCSV
  anNet,                    \* impressions requests and responses in flight
  Fleet_loading             \* DevicesPage.js, DashboardPage.js: loading

camVars == <<dbCampaigns, dbAds, dbImpressions, campaigns, campaignStats, loading,
             isDialogOpen, formData, selectedCampaign, isAdDialogOpen, campaignAds,
             net, clean, clickLog, trail, now>>

revVars == <<route, Dashboard_stats, Clients_campaignStats, Analytics_overview,
             Analytics_campaignStats, Analytics_loading, statsRes, exported, sentParams, pendingLoads>>

csvVars == <<csvData, csvFields, csvOut>>

upVars == <<adFormFile, isUploading, uploadProgress, strayInterval>>

authVars == <<supabaseSession, getSessionResult, Auth_session, Auth_user, Auth_loading, Auth_userRole,
              location, intercepting, sent, Login_loading, signIn>>

loginVars == <<Login_loading, signIn>>

fleetVars == <<clock, threshold, dbDevices, dbDrivers, fleetNet, mounted, instance, interval,
               devices, dataAt, shownOf, Fleet_loading, Devices_filter, Devices_cityFilter>>

anVars == <<Analytics_selectedCampaign, Analytics_dateRange, Analytics_impressions, shownParams,
            exportData, anNet>>

appVars == <<authVars, fleetVars, anVars>>

vars == <<camVars, revVars, csvVars, upVars, appVars>>

----------------------------------------------------------------------------
(* Bounds of the model *)

MaxClicks == 3          \* status-button clicks in an observed run of clicks
MaxInflight == 2        \* Spec: messages in flight when the operator acts
MaxInflightAds == 1     \* SpecAds: messages in flight when the operator acts
MaxInflightCreate == 1  \* SpecCreate: messages in flight when the operator acts
MaxImpressions == 1     \* impression records per campaign
MaxDay == 2             \* days the clock runs through
MaxCount == 2           \* impressions a stats row or the overview counts
MaxRows == 2            \* rows of a /analytics/campaigns response
MaxRecords == 2         \* records handed to convertToCSV
MaxPendingLoads == 1    \* loadData calls of a page awaiting their responses
MaxInflightUpload == 2  \* SpecUpload: messages in flight when the operator acts
MaxFleetTime == 2       \* SpecFleet: the last time reached
MaxThreshold == 1       \* SpecFleet: the largest staleness threshold
MaxFleetInflight == 1   \* SpecFleet: messages in flight when the operator acts
MaxPollTime == 8        \* SpecPoll: the last time reached
MaxLatency == 4         \* SpecPoll: the longest a request is in flight
MaxPollMounts == 2      \* SpecPoll: mounts of a polling page
MaxIntercepting == 1    \* SpecAuth: calls whose interceptor awaits getSession

----------------------------------------------------------------------------
(* Values *)

CampaignIds == {"c1", "c2"}
AdIds == {"a1"}
ClientIds == {"k1"}
Statuses == {"SCHEDULED", "ACTIVE", "PAUSED", "COMPLETED"}

\* the campaign each ad belongs to
AdCampaign(a) == "c1"

\* the day a date string of the form stands for
DateDay(d) == IF d = "d0" THEN 0 ELSE IF d = "d1" THEN 1 ELSE 2

NoCampaign ==
  [present |-> FALSE, status |-> "", client_id |-> "", name |-> "",
   start_date |-> "", end_date |-> ""]

NoStats == [present |-> FALSE, total_impressions |-> 0]

NoData == [campaigns |-> [c \in CampaignIds |-> NoCampaign],
           stats |-> [c \in CampaignIds |-> NoStats],
           ads |-> {}]

EmptyForm == [client_id |-> "", name |-> "", start_date |-> "", end_date |-> ""]

\* a File of the file input: its MIME type and its size in bytes; null when none
NoFile == [type |-> "", size |-> 0]

\* arguments of a request; campaign is the selectedCampaign.id the issuing handler closed over
NoArg == [new_status |-> "", form |-> EmptyForm, campaign |-> "", file |-> NoFile]

\* String.prototype.toLowerCase / toUpperCase on the status strings
toLowerCase(s) ==
  CASE s = "SCHEDULED" -> "scheduled"
    [] s = "ACTIVE" -> "active"
    [] s = "PAUSED" -> "paused"
    [] s = "COMPLETED" -> "completed"
    [] OTHER -> s

toUpperCase(s) ==
  CASE s = "scheduled" -> "SCHEDULED"
    [] s = "active" -> "ACTIVE"
    [] s = "paused" -> "PAUSED"
    [] s = "completed" -> "COMPLETED"
    [] OTHER -> s

----------------------------------------------------------------------------
(* lib/api.js: the requests *)

Req(op, id, arg, origin) ==
  [dir |-> "req", op |-> op, id |-> id, arg |-> arg, origin |-> origin,
   ok |-> TRUE, data |-> NoData]

Res(r, ok, data) ==
  [dir |-> "res", op |-> r.op, id |-> r.id, arg |-> r.arg, origin |-> r.origin,
   ok |-> ok, data |-> data]

\* mutant of CreateParams: the request also carries a status
CreateParamsWithStatus(data) ==
  [name |-> data.name, client_id |-> data.client_id,
   start_date |-> data.start_date, end_date |-> data.end_date, status |-> "ACTIVE"]

\* campaignAPI.create: the query parameters of POST /campaigns
CreateParams(data) ==
  [name |-> data.name, client_id |-> data.client_id,
   start_date |-> data.start_date, end_date |-> data.end_date]

campaignAPI_create(data, origin) ==
  Req("POST_CAMPAIGN", "", [NoArg EXCEPT !.form = CreateParams(data)], origin)

\* campaignAPI.updateStatus: PUT /campaigns/{id}/status?new_status=
campaignAPI_updateStatus(id, status, origin) ==
  Req("PUT_STATUS", id, [NoArg EXCEPT !.new_status = status], origin)

campaignAPI_getAds(campaignId) == Req("GET_ADS", campaignId, NoArg, "loadCampaignAds")

campaignAPI_deleteAd(adId, campaignId, origin) ==
  Req("DELETE_AD", adId, [NoArg EXCEPT !.campaign = campaignId], origin)

\* the four GETs of loadData (campaigns, clients, devices, analytics/campaigns),
\* awaited together by Promise.all
LoadRequest == Req("LOAD", "", NoArg, "loadData")

----------------------------------------------------------------------------
(* CampaignsPage.js: rendering *)

\* mutants of StatusButton: the branches swapped; the status not looked at; a
\* third branch that completes a paused campaign
StatusButtonSwapped(campaign) ==
  IF toLowerCase(campaign.status) = "active" THEN "ACTIVE" ELSE "PAUSED"

StatusButtonActivateOnly(campaign) == "ACTIVE"

StatusButtonCompletes(campaign) ==
  IF toLowerCase(campaign.status) = "active" THEN "PAUSED"
  ELSE IF toLowerCase(campaign.status) = "paused" THEN "COMPLETED" ELSE "ACTIVE"

\* the status the single status button of a campaign card asks for
StatusButton(campaign) ==
  IF toLowerCase(campaign.status) = "active" THEN "PAUSED" ELSE "ACTIVE"

\* the status badge of a campaign card
StatusBadge(campaign) ==
  IF campaign.status = "" THEN "SCHEDULED" ELSE toUpperCase(campaign.status)

\* the impressions figure of a campaign card
ShownImpressions(c) ==
  IF campaignStats[c].present THEN campaignStats[c].total_impressions ELSE 0

\* mutant of StatusChangeRequests: the status is sent for every campaign
StatusChangeRequestsForAll(campaignId, newStatus) ==
  {campaignAPI_updateStatus(c, newStatus, "handleStatusChange") : c \in CampaignIds}

\* the requests handleStatusChange issues before its await
StatusChangeRequests(campaignId, newStatus) ==
  {campaignAPI_updateStatus(campaignId, newStatus, "handleStatusChange")}

----------------------------------------------------------------------------
(* The network: a bag of messages *)

One(m) == SetToBag({m})

InFlight == BagCardinality(net)

Requests == {m \in BagToSet(net) : m.dir = "req"}

Responses == {m \in BagToSet(net) : m.dir = "res"}

\* the store answers request r with response s
Answer(r, s) == net' = (net (-) One(r)) (+) One(s)

pageVars == <<campaigns, campaignStats, loading, isDialogOpen, formData,
              selectedCampaign, isAdDialogOpen, campaignAds>>

dbVars == <<dbCampaigns, dbAds, dbImpressions>>

obsVars == <<clean, clickLog, trail, now>>

\* The observation of a run of status clicks: it is kept while every click is made
\* on a reloaded list and succeeds, and dropped for good at the first one that is not.
NoLog == [c \in CampaignIds |-> <<>>]

Observe(ok, cl, tr) ==
  IF clean /\ ok
    THEN clean' = TRUE /\ clickLog' = cl /\ trail' = tr
    ELSE clean' = FALSE /\ clickLog' = NoLog /\ trail' = NoLog

----------------------------------------------------------------------------
(* Resource store: the handlers behind the REST surface *)

StoreSnapshot ==
  [campaigns |-> dbCampaigns,
   stats |-> [c \in CampaignIds |->
                IF dbCampaigns[c].present
                  THEN [present |-> TRUE, total_impressions |-> dbImpressions[c]]
                  ELSE NoStats],
   ads |-> {}]

\* GET /campaigns, /clients, /devices, /analytics/campaigns
StoreList(r) ==
  /\ r.op = "LOAD"
  /\ Answer(r, Res(r, TRUE, StoreSnapshot))
  /\ UNCHANGED <<dbVars, pageVars, obsVars>>

\* what PUT /campaigns/{id}/status does to the stored campaigns
ApplyStatus(id, new_status) == [dbCampaigns EXCEPT ![id].status = new_status]

\* PUT /campaigns/{id}/status
StoreUpdateStatus(r) ==
  /\ r.op = "PUT_STATUS"
  /\ dbCampaigns[r.id].present
  /\ dbCampaigns' = ApplyStatus(r.id, r.arg.new_status)
  /\ Observe(TRUE, clickLog, [trail EXCEPT ![r.id] = Append(@, r.arg.new_status)])
  /\ Answer(r, Res(r, TRUE, NoData))
  /\ UNCHANGED <<dbAds, dbImpressions, pageVars, now>>

\* the campaign POST /campaigns stores
NewCampaign(params) ==
  [present |-> TRUE, status |-> "SCHEDULED",
   client_id |-> params.client_id, name |-> params.name,
   start_date |-> params.start_date, end_date |-> params.end_date]

\* the id the store gives the next campaign
FreeIds == {c \in CampaignIds : ~dbCampaigns[c].present}

NextId == IF "c1" \in FreeIds THEN "c1" ELSE "c2"

\* POST /campaigns
StoreCreate(r) ==
  /\ r.op = "POST_CAMPAIGN"
  /\ FreeIds # {}
  /\ LET c == NextId
     IN /\ dbCampaigns' = [dbCampaigns EXCEPT ![c] = NewCampaign(r.arg.form)]
        /\ Observe(TRUE, clickLog, [trail EXCEPT ![c] = <<NewCampaign(r.arg.form).status>>])
  /\ Answer(r, Res(r, TRUE, NoData))
  /\ UNCHANGED <<dbAds, dbImpressions, pageVars, now>>

\* DELETE /ads/{id}
\* mutant of StoreDeleteAd: the impressions of the ad's campaign go with the ad
StoreDeleteAdCascade(r) ==
  /\ r.op = "DELETE_AD"
  /\ dbAds' = dbAds \ {r.id}
  /\ dbImpressions' = [dbImpressions EXCEPT ![AdCampaign(r.id)] = 0]
  /\ Answer(r, Res(r, TRUE, NoData))
  /\ UNCHANGED <<dbCampaigns, pageVars, obsVars>>

StoreDeleteAd(r) ==
  /\ r.op = "DELETE_AD"
  /\ dbAds' = dbAds \ {r.id}
  /\ Answer(r, Res(r, TRUE, NoData))
  /\ UNCHANGED <<dbCampaigns, dbImpressions, pageVars, obsVars>>

\* GET /campaigns/{id}/ads
StoreGetAds(r) ==
  /\ r.op = "GET_ADS"
  /\ Answer(r, Res(r, TRUE, [NoData EXCEPT !.ads = {a \in dbAds : AdCampaign(a) = r.id}]))
  /\ UNCHANGED <<dbVars, pageVars, obsVars>>

\* a network or server error: the request has no effect and the promise rejects
RequestFails(r) ==
  /\ Answer(r, Res(r, FALSE, NoData))
  /\ UNCHANGED <<dbVars, pageVars, obsVars>>

\* a device plays ad a: one more impression record (append-only)
RecordImpression(a) ==
  /\ a \in dbAds
  /\ dbImpressions[AdCampaign(a)] < MaxImpressions
  /\ dbImpressions' = [dbImpressions EXCEPT ![AdCampaign(a)] = @ + 1]
  /\ UNCHANGED <<dbCampaigns, dbAds, net, pageVars, obsVars>>

----------------------------------------------------------------------------
(* CampaignsPage.js: handlers.  A handler that awaits a request is two     *)
(* actions: the part before the await, and the part run when the response  *)
(* arrives.                                                                *)

\* loadData, after the await
loadData_done(m) ==
  /\ m.op = "LOAD"
  /\ net' = net (-) One(m)
  /\ IF m.ok
       THEN /\ campaigns' = m.data.campaigns
            /\ campaignStats' = m.data.stats
       ELSE UNCHANGED <<campaigns, campaignStats>>
  /\ loading' = FALSE
  /\ UNCHANGED <<isDialogOpen, formData, selectedCampaign, isAdDialogOpen, campaignAds>>
  /\ UNCHANGED <<dbVars, obsVars>>

\* the page is in step with the store for campaign c and nothing is in flight
InSync(c) == InFlight = 0 /\ campaigns[c] = dbCampaigns[c]

TotalClicks == Len(clickLog["c1"]) + Len(clickLog["c2"])

\* onClick of the status button of campaign c: handleStatusChange up to its await
handleStatusChange(c) ==
  /\ ~loading
  /\ campaigns[c].present
  /\ TotalClicks < MaxClicks
  /\ LET newStatus == StatusButton(campaigns[c])
         rs == StatusChangeRequests(c, newStatus)
     IN /\ net' = net (+) SetToBag(rs)
        /\ Observe(InSync(c), [clickLog EXCEPT ![c] = Append(@, newStatus)], trail)
  /\ UNCHANGED <<pageVars, dbVars, now>>

\* handleStatusChange, after the await
handleStatusChange_done(m) ==
  /\ m.op = "PUT_STATUS"
  /\ IF m.ok
       THEN net' = (net (-) One(m)) (+) One(LoadRequest)
       ELSE net' = net (-) One(m)
  /\ Observe(m.ok, clickLog, trail)
  /\ UNCHANGED <<pageVars, dbVars, now>>

\* the New Campaign dialog is opened or closed
setIsDialogOpen(b) ==
  /\ ~loading
  /\ isDialogOpen # b
  /\ isDialogOpen' = b
  /\ UNCHANGED <<campaigns, campaignStats, loading, formData, selectedCampaign,
                 isAdDialogOpen, campaignAds, dbVars, net, obsVars>>

FormFields == {"client_id", "name", "start_date", "end_date"}

FieldValues(f) ==
  CASE f = "client_id" -> ClientIds
    [] f = "name" -> {"n1"}
    [] f = "start_date" -> {"d0"}
    [] f = "end_date" -> {"d1"}

\* onChange / onValueChange of a form input
setFormData(f, v) ==
  /\ ~loading /\ isDialogOpen
  /\ formData[f] # v
  /\ formData' = [formData EXCEPT ![f] = v]
  /\ UNCHANGED <<campaigns, campaignStats, loading, isDialogOpen, selectedCampaign,
                 isAdDialogOpen, campaignAds, dbVars, net, obsVars>>

\* the inputs marked required are filled in (the browser blocks submit otherwise)
FormValid == formData.name # "" /\ formData.start_date # "" /\ formData.end_date # ""

\* handleSubmit up to its await
handleSubmit ==
  /\ ~loading /\ isDialogOpen
  /\ FormValid
  /\ LET r == campaignAPI_create(formData, "handleSubmit")
     IN net' = net (+) One(r)
  /\ UNCHANGED <<pageVars, dbVars, obsVars>>

\* handleSubmit, after the await
handleSubmit_done(m) ==
  /\ m.op = "POST_CAMPAIGN"
  /\ IF m.ok
       THEN /\ isDialogOpen' = FALSE
            /\ formData' = EmptyForm
            /\ net' = (net (-) One(m)) (+) One(LoadRequest)
       ELSE /\ net' = net (-) One(m)
            /\ UNCHANGED <<isDialogOpen, formData>>
  /\ UNCHANGED <<campaigns, campaignStats, loading, selectedCampaign, isAdDialogOpen,
                 campaignAds, dbVars, obsVars>>

\* openAdManager: also starts loadCampaignAds
openAdManager(c) ==
  /\ ~loading
  /\ campaigns[c].present
  /\ ~isAdDialogOpen
  /\ selectedCampaign' = c
  /\ isAdDialogOpen' = TRUE
  /\ net' = net (+) One(campaignAPI_getAds(c))
  /\ UNCHANGED <<campaigns, campaignStats, loading, isDialogOpen, formData, campaignAds,
                 dbVars, obsVars>>

\* the ad manager dialog is closed
setIsAdDialogOpen_false ==
  /\ isAdDialogOpen
  /\ isAdDialogOpen' = FALSE
  /\ UNCHANGED <<campaigns, campaignStats, loading, isDialogOpen, formData,
                 selectedCampaign, campaignAds, dbVars, net, obsVars>>

\* loadCampaignAds, after the await
loadCampaignAds_done(m) ==
  /\ m.op = "GET_ADS"
  /\ net' = net (-) One(m)
  /\ campaignAds' = IF m.ok THEN m.data.ads ELSE {}
  /\ UNCHANGED <<campaigns, campaignStats, loading, isDialogOpen, formData,
                 selectedCampaign, isAdDialogOpen, dbVars, obsVars>>

\* handleDeleteAd up to its await (the operator confirms)
handleDeleteAd(adId) ==
  /\ ~loading /\ isAdDialogOpen
  /\ adId \in campaignAds
  /\ LET r == campaignAPI_deleteAd(adId, selectedCampaign, "handleDeleteAd")
     IN net' = net (+) One(r)
  /\ UNCHANGED <<pageVars, dbVars, obsVars>>

\* handleDeleteAd, after the await
handleDeleteAd_done(m) ==
  /\ m.op = "DELETE_AD"
  /\ IF m.ok
       THEN net' = (net (-) One(m)) (+) One(campaignAPI_getAds(m.arg.campaign))
       ELSE net' = net (-) One(m)
  /\ UNCHANGED <<pageVars, dbVars, obsVars>>

\* a day passes; the page has no timer that acts on it
Tick ==
  /\ now < MaxDay
  /\ now' = now + 1
  /\ UNCHANGED <<pageVars, dbVars, net, clean, clickLog, trail>>

----------------------------------------------------------------------------
(* The pages that show revenue: DashboardPage, ClientsPage, AnalyticsPage.  *)
(* One page is mounted at a time; a page's loadData is modelled at the      *)
(* point where its awaited responses arrive, with the response as input.    *)
(* Money is counted in hundredths of a rupee, so the rate 0.10 is 10.       *)

Routes == {"/dashboard", "/clients", "/analytics"}
StatClientIds == {"k1", "k2"}

\* a number field of a response: a number, or undefined when the field is missing
Undefined == [defined |-> FALSE, num |-> 0]
Num(n) == [defined |-> TRUE, num |-> n]
CountValues == {Undefined} \cup {Num(n) : n \in 0..MaxCount}

\* the result of a JavaScript multiplication: an amount, or NaN
NaN == [nan |-> TRUE, hundredths |-> 0]
Money(h) == [nan |-> FALSE, hundredths |-> h]

\* x * RATE_PER_IMPRESSION: undefined * 0.10 is NaN
Times(x, rate) == IF x.defined THEN Money(x.num * rate) ELSE NaN

\* x || 0
OrZero(x) == IF x.defined /\ x.num # 0 THEN x ELSE Num(0)

\* Number.prototype.toFixed(2): the text "<whole>.<cents>", or "NaN"
toFixed2(m) ==
  IF m.nan THEN [nan |-> TRUE, whole |-> 0, cents |-> 0]
  ELSE [nan |-> FALSE, whole |-> m.hundredths \div 100, cents |-> m.hundredths % 100]

\* GET /analytics/overview and GET /analytics/campaigns: the bodies a page may receive
OverviewResponses == [total_impressions : CountValues, today_impressions : CountValues]

\* a stats row; client_id "undefined" is the property key of a row without client_id
StatRows == [client_id : StatClientIds \cup {"undefined"},
             total_impressions : {Undefined, Num(2)}]

RowSeqs == UNION {[1..n -> StatRows] : n \in 0..MaxRows}

\* ---- DashboardPage.js ----

Dashboard_RATE_PER_IMPRESSION == 10

Dashboard_initialStats == [total_impressions |-> Num(0), today_impressions |-> Num(0)]

\* loadData: setStats(statsRes.data); a failed request leaves the state as it was
Dashboard_loadData(ok, data) ==
  /\ route = "/dashboard"
  /\ pendingLoads > 0
  /\ pendingLoads' = pendingLoads - 1
  /\ Dashboard_stats' = IF ok THEN data ELSE Dashboard_stats
  /\ UNCHANGED <<route, Clients_campaignStats, Analytics_overview, Analytics_campaignStats, Analytics_loading,
                 statsRes, exported, sentParams>>

\* setInterval(loadData, 30000)
Dashboard_interval ==
  /\ route = "/dashboard"
  /\ pendingLoads < MaxPendingLoads
  /\ pendingLoads' = pendingLoads + 1
  /\ UNCHANGED <<route, Dashboard_stats, Clients_campaignStats, Analytics_overview,
                 Analytics_campaignStats, Analytics_loading, statsRes, exported, sentParams>>

Dashboard_totalRevenue == Times(Dashboard_stats.total_impressions, Dashboard_RATE_PER_IMPRESSION)

Dashboard_todayRevenue == Times(Dashboard_stats.today_impressions, Dashboard_RATE_PER_IMPRESSION)

\* ---- ClientsPage ----

Clients_RATE_PER_IMPRESSION == 10

NoClientStats == [present |-> FALSE, impressions |-> 0, campaigns |-> 0]

EmptyStatsMap == [k \in StatClientIds \cup {"undefined"} |-> NoClientStats]

\* mutant of statsMapStep: the row's count is assigned, not added
statsMapStepAssigns(statsMap, s) ==
  [statsMap EXCEPT ![s.client_id] =
     [present |-> TRUE,
      impressions |-> OrZero(s.total_impressions).num,
      campaigns |-> statsMap[s.client_id].campaigns + 1]]

\* the body of the forEach over the stats rows
statsMapStep(statsMap, s) ==
  [statsMap EXCEPT ![s.client_id] =
     [present |-> TRUE,
      impressions |-> statsMap[s.client_id].impressions + OrZero(s.total_impressions).num,
      campaigns |-> statsMap[s.client_id].campaigns + 1]]

RECURSIVE statsMapOf(_)
statsMapOf(rows) ==
  IF rows = <<>> THEN EmptyStatsMap
  ELSE statsMapStep(statsMapOf(SubSeq(rows, 1, Len(rows) - 1)), rows[Len(rows)])

\* loadData: the statsMap of the rows received; a failed request leaves the state as it was
Clients_loadData(ok, rows) ==
  /\ route = "/clients"
  /\ pendingLoads > 0
  /\ pendingLoads' = pendingLoads - 1
  /\ Clients_campaignStats' = IF ok THEN statsMapOf(rows) ELSE Clients_campaignStats
  /\ statsRes' = IF ok THEN rows ELSE statsRes
  /\ UNCHANGED <<route, Dashboard_stats, Analytics_overview, Analytics_campaignStats, Analytics_loading,
                 exported, sentParams>>

\* handleSubmit: clientAPI.create sends name, contact_person and phone; when the
\* request succeeds the page loads again
Clients_handleSubmit(ok) ==
  /\ route = "/clients"
  /\ pendingLoads < MaxPendingLoads
  /\ sentParams' = sentParams \cup {"name", "contact_person", "phone"}
  /\ pendingLoads' = IF ok THEN pendingLoads + 1 ELSE pendingLoads
  /\ UNCHANGED <<route, Dashboard_stats, Clients_campaignStats, Analytics_overview,
                 Analytics_campaignStats, Analytics_loading, statsRes, exported>>

\* (campaignStats[client.id] || {}).impressions
Clients_statsImpressions(clientId) ==
  IF Clients_campaignStats[clientId].present
    THEN Num(Clients_campaignStats[clientId].impressions)
    ELSE Undefined

\* the Impressions figure of a client card: stats.impressions || 0
Clients_shownImpressions(clientId) == OrZero(Clients_statsImpressions(clientId)).num

\* mutant of getClientRevenue: this page's rate differs
getClientRevenueOtherRate(clientId) ==
  Times(OrZero(Clients_statsImpressions(clientId)), 12)

getClientRevenue(clientId) ==
  Times(OrZero(Clients_statsImpressions(clientId)), Clients_RATE_PER_IMPRESSION)

RECURSIVE SumOver(_, _)
SumOver(f, keys) ==
  IF keys = {} THEN 0
  ELSE LET k == CHOOSE x \in keys : TRUE IN f[k] + SumOver(f, keys \ {k})

\* Object.values(campaignStats).reduce((sum, s) => sum + (s.impressions || 0), 0)
Clients_totalImpressions ==
  LET present == {k \in DOMAIN Clients_campaignStats : Clients_campaignStats[k].present}
  IN SumOver([k \in present |-> OrZero(Num(Clients_campaignStats[k].impressions)).num], present)

Clients_totalRevenue == Times(Num(Clients_totalImpressions), Clients_RATE_PER_IMPRESSION)

\* ---- AnalyticsPage ----

Analytics_RATE_PER_IMPRESSION == 10

\* the chart takes the first rows of the sorted list: slice(0, 8)
ChartRows == 8

Analytics_initialOverview == [total_impressions |-> Undefined, today_impressions |-> Undefined]

\* Array.prototype.sort with (a, b) => (b.total_impressions || 0) - (a.total_impressions || 0):
\* stable, descending; the render sorts the state array in place
sortInsert(sorted, r) ==
  LET ahead == Cardinality({i \in 1..Len(sorted) :
                 OrZero(sorted[i].total_impressions).num >= OrZero(r.total_impressions).num})
  IN SubSeq(sorted, 1, ahead) \o <<r>> \o SubSeq(sorted, ahead + 1, Len(sorted))

RECURSIVE sortByImpressions(_)
sortByImpressions(rows) ==
  IF rows = <<>> THEN <<>>
  ELSE sortInsert(sortByImpressions(SubSeq(rows, 1, Len(rows) - 1)), rows[Len(rows)])

\* mutant of loadingAfter: loading is reset after a successful load only
loadingAfterSuccess(ok) == ~ok

\* finally { setLoading(false) }
loadingAfter(ok) == FALSE

\* loadData: setOverview, setCampaignStats; a failed request leaves the state as it was;
\* in both cases loading is reset
Analytics_loadData(ok, data, rows) ==
  /\ route = "/analytics"
  /\ pendingLoads > 0
  /\ pendingLoads' = pendingLoads - 1
  /\ Analytics_overview' = IF ok THEN data ELSE Analytics_overview
  /\ Analytics_campaignStats' = IF ok THEN sortByImpressions(rows) ELSE Analytics_campaignStats
  /\ Analytics_loading' = loadingAfter(ok)
  /\ UNCHANGED <<route, Dashboard_stats, Clients_campaignStats, statsRes, exported, sentParams>>

\* loadImpressions: the parameters of GET /analytics/impressions
Analytics_loadImpressions(campaignSelected) ==
  /\ route = "/analytics"
  /\ sentParams' = sentParams \cup {"start_date", "end_date", "limit"}
                     \cup (IF campaignSelected THEN {"campaign_id"} ELSE {})
  /\ UNCHANGED <<route, Dashboard_stats, Clients_campaignStats, Analytics_overview,
                 Analytics_campaignStats, Analytics_loading, statsRes, exported, pendingLoads>>

Analytics_totalRevenue ==
  Times(OrZero(Analytics_overview.total_impressions), Analytics_RATE_PER_IMPRESSION)

Analytics_todayRevenue ==
  Times(OrZero(Analytics_overview.today_impressions), Analytics_RATE_PER_IMPRESSION)

\* the Revenue cell of row i of the table
Analytics_rowRevenue(i) ==
  Times(OrZero(Analytics_campaignStats[i].total_impressions), Analytics_RATE_PER_IMPRESSION)

RECURSIVE SumImpressions(_)
SumImpressions(rows) ==
  IF rows = <<>> THEN 0
  ELSE OrZero(rows[Len(rows)].total_impressions).num + SumImpressions(SubSeq(rows, 1, Len(rows) - 1))

\* the Impressions cell of the table's footer:
\* campaignStats.reduce((sum, c) => sum + (c.total_impressions || 0), 0)
Analytics_footerImpressions == SumImpressions(Analytics_campaignStats)

\* the Revenue cell of the table's footer, rendered when the table has rows: totalRevenue
Analytics_footerRevenue == Analytics_totalRevenue

\* campaignChartData: impressions and revenue of the first rows
campaignChartData ==
  [i \in 1..(IF Len(Analytics_campaignStats) < ChartRows
               THEN Len(Analytics_campaignStats) ELSE ChartRows) |->
     [impressions |-> OrZero(Analytics_campaignStats[i].total_impressions).num,
      revenue |-> toFixed2(Analytics_rowRevenue(i))]]

\* handleExportCampaignReport: nothing is exported from an empty list; else each
\* row is exported with a revenue column
dataWithRevenue ==
  [i \in 1..Len(Analytics_campaignStats) |->
     [client_id |-> Analytics_campaignStats[i].client_id,
      total_impressions |-> Analytics_campaignStats[i].total_impressions,
      revenue |-> toFixed2(Analytics_rowRevenue(i))]]

handleExportCampaignReport ==
  /\ route = "/analytics"
  /\ Len(Analytics_campaignStats) # 0
  /\ exported' = dataWithRevenue
  /\ UNCHANGED <<route, Dashboard_stats, Clients_campaignStats, Analytics_overview,
                 Analytics_campaignStats, Analytics_loading, statsRes, sentParams, pendingLoads>>

\* ---- AnalyticsPage: the impressions of the trend chart and of the CSV export ----

DisplayLimit == 500
ExportLimit == 10000

\* the dates of the model (days) and the campaigns of the select; "" is All Campaigns
Dates == {1, 2}
SelectableCampaigns == {"", "c1"}

\* a parameter object without the key campaign_id carries "undefined" there
NoParams == [start_date |-> 0, end_date |-> 0, campaign_id |-> "undefined", limit |-> 0]

\* the impressions of the store, in the order it returns them
storedImpressions ==
  <<[played_at |-> 1, campaign |-> "c1"], [played_at |-> 2, campaign |-> "c1"],
    [played_at |-> 2, campaign |-> "c2"]>>

\* mutant of impressionsParams: campaign_id is sent whether or not a campaign is selected
impressionsParamsWithCampaign(limit) ==
  [start_date |-> Analytics_dateRange.start, end_date |-> Analytics_dateRange.end,
   campaign_id |-> Analytics_selectedCampaign, limit |-> limit]

\* params = {start_date, end_date, limit}; if (selectedCampaign) params.campaign_id = ...
impressionsParams(limit) ==
  [start_date |-> Analytics_dateRange.start, end_date |-> Analytics_dateRange.end,
   campaign_id |-> IF Analytics_selectedCampaign # "" THEN Analytics_selectedCampaign
                   ELSE "undefined",
   limit |-> limit]

AnReq(kind, params) ==
  [dir |-> "req", kind |-> kind, params |-> params, ok |-> TRUE, data |-> <<>>]

AnRes(r, ok, data) == [r EXCEPT !.dir = "res", !.ok = ok, !.data = data]

\* api.get('/analytics/impressions', { params })
analyticsAPI_impressions(params) == AnReq("display", params)

\* api.get('/analytics/impressions', { params: { ...params, limit: 10000 } })
analyticsAPI_exportCSV(params) == AnReq("export", [params EXCEPT !.limit = ExportLimit])

\* the store's query: the rows within the dates, of the campaign if one is given, up
\* to the limit
StoreQuery(params) ==
  LET hit(row) == /\ params.start_date <= row.played_at /\ row.played_at <= params.end_date
                  /\ params.campaign_id \in {"undefined", row.campaign}
      rows == SelectSeq(storedImpressions, hit)
  IN IF Len(rows) <= params.limit THEN rows ELSE SubSeq(rows, 1, params.limit)

StoreImpressions(r) ==
  /\ r.dir = "req"
  /\ anNet' = (anNet (-) One(r)) (+) One(AnRes(r, TRUE, StoreQuery(r.params)))
  /\ UNCHANGED <<Analytics_selectedCampaign, Analytics_dateRange, Analytics_impressions,
                 shownParams, exportData>>

ImpressionsRequestFails(r) ==
  /\ r.dir = "req"
  /\ anNet' = (anNet (-) One(r)) (+) One(AnRes(r, FALSE, <<>>))
  /\ UNCHANGED <<Analytics_selectedCampaign, Analytics_dateRange, Analytics_impressions,
                 shownParams, exportData>>

\* loadImpressions, up to its await: run by the effect on [selectedCampaign, dateRange]
loadImpressions == anNet' = anNet (+) One(analyticsAPI_impressions(impressionsParams(DisplayLimit))')

\* the campaign select: onValueChange={setSelectedCampaign}; the effect then loads
setSelectedCampaign(c) ==
  /\ c # Analytics_selectedCampaign
  /\ Analytics_selectedCampaign' = c
  /\ UNCHANGED <<Analytics_dateRange, Analytics_impressions, shownParams, exportData>>
  /\ loadImpressions

\* the date inputs: setDateRange({ ...dateRange, start }) or ({ ...dateRange, end })
setDateRange(field, value) ==
  /\ Analytics_dateRange' = IF field = "start" THEN [Analytics_dateRange EXCEPT !.start = value]
                                                ELSE [Analytics_dateRange EXCEPT !.end = value]
  /\ Analytics_dateRange' # Analytics_dateRange
  /\ UNCHANGED <<Analytics_selectedCampaign, Analytics_impressions, shownParams, exportData>>
  /\ loadImpressions

\* loadImpressions, after its await: setImpressions(response.data || []); a failure is
\* logged and the impressions stay as they are
loadImpressions_done(m) ==
  /\ m.dir = "res" /\ m.kind = "display"
  /\ anNet' = anNet (-) One(m)
  /\ IF m.ok THEN Analytics_impressions' = m.data /\ shownParams' = m.params
             ELSE UNCHANGED <<Analytics_impressions, shownParams>>
  /\ UNCHANGED <<Analytics_selectedCampaign, Analytics_dateRange, exportData>>

\* handleExportCSV, up to its await
handleExportCSV ==
  /\ anNet' = anNet (+) One(analyticsAPI_exportCSV(impressionsParams(ExportLimit)))
  /\ UNCHANGED <<Analytics_selectedCampaign, Analytics_dateRange, Analytics_impressions,
                 shownParams, exportData>>

\* handleExportCSV, after its await: nothing is exported without data, else the rows
\* are converted and downloaded
handleExportCSV_done(m) ==
  /\ m.dir = "res" /\ m.kind = "export"
  /\ anNet' = anNet (-) One(m)
  /\ exportData' = IF m.ok /\ Len(m.data) # 0 THEN m.data ELSE exportData
  /\ UNCHANGED <<Analytics_selectedCampaign, Analytics_dateRange, Analytics_impressions,
                 shownParams>>

\* the impressions counted by the trend chart: impressionsByDate, date by date
impressionsByDate == [d \in Dates |-> Cardinality({i \in 1..Len(Analytics_impressions) :
                                                     Analytics_impressions[i].played_at = d})]

Analytics_initialDateRange == [start |-> 1, end |-> 2]

ImpressionsUnloaded ==
  /\ Analytics_selectedCampaign = ""
  /\ Analytics_dateRange = Analytics_initialDateRange
  /\ Analytics_impressions = <<>>
  /\ shownParams = NoParams
  /\ exportData = <<>>

\* ---- App.js: the routes ----

OtherPagesUnmounted ==
  /\ ImpressionsUnloaded
  /\ anNet = EmptyBag
  /\ Dashboard_stats = Dashboard_initialStats
  /\ Clients_campaignStats = EmptyStatsMap
  /\ Analytics_overview = Analytics_initialOverview
  /\ Analytics_campaignStats = <<>>
  /\ Analytics_loading = TRUE
  /\ statsRes = <<>>
  /\ exported = <<>>
  /\ sentParams = {}
  /\ pendingLoads = 0

\* the operator follows a link: the page left is unmounted and its state is gone, the
\* page entered starts from its useState initial values and calls loadData
navigate(path) ==
  /\ path # route
  /\ route' = path
  /\ Dashboard_stats' = Dashboard_initialStats
  /\ Clients_campaignStats' = EmptyStatsMap
  /\ Analytics_overview' = Analytics_initialOverview
  /\ Analytics_campaignStats' = <<>>
  /\ Analytics_loading' = TRUE
  /\ statsRes' = <<>>
  /\ exported' = <<>>
  /\ pendingLoads' = 1
  /\ sentParams' = {}

----------------------------------------------------------------------------
(* lib/api.js: convertToCSV.  A string is a sequence of characters.         *)

Str(s) == [type |-> "string", str |-> s, num |-> 0]
NumValue(n) == [type |-> "number", str |-> <<>>, num |-> n]
NullValue == [type |-> "null", str |-> <<>>, num |-> 0]
UndefinedValue == [type |-> "undefined", str |-> <<>>, num |-> 0]

\* the values a record field takes in the model
CsvValues ==
  {Str(<<"a">>), Str(<<"a", ",", "b">>), Str(<<"a", "\"", "b">>), Str(<<"a", "\n", "b">>),
   NumValue(17), NullValue, UndefinedValue}

CsvKeys == {"id", "ad_id"}
CsvRecords == [CsvKeys -> CsvValues]

FieldId == [key |-> "id", label |-> <<"I", "D">>]
FieldAd == [key |-> "ad_id", label |-> <<"A", "d">>]
\* a field whose label holds a comma, as 'Revenue (₹)' holds a space and brackets
FieldCommaLabel == [key |-> "ad_id", label |-> <<"A", ",", "d">>]
FieldLists == {<<FieldId>>, <<FieldId, FieldAd>>, <<FieldAd, FieldId>>, <<FieldId, FieldCommaLabel>>}

\* String(n) for a number n >= 0
RECURSIVE NumberToString(_)
NumberToString(n) ==
  LET digit == <<"0", "1", "2", "3", "4", "5", "6", "7", "8", "9">>[(n % 10) + 1]
  IN IF n < 10 THEN <<digit>> ELSE Append(NumberToString(n \div 10), digit)

\* String.prototype.includes for one character
includes(s, ch) == \E i \in 1..Len(s) : s[i] = ch

\* value.replace(/"/g, '""')
RECURSIVE doubleQuotes(_)
doubleQuotes(s) ==
  IF s = <<>> THEN <<>>
  ELSE (IF Head(s) = "\"" THEN <<"\"", "\"">> ELSE <<Head(s)>>) \o doubleQuotes(Tail(s))

\* Array.prototype.join
RECURSIVE join(_, _)
join(pieces, sep) ==
  IF pieces = <<>> THEN <<>>
  ELSE IF Len(pieces) = 1 THEN pieces[1]
  ELSE pieces[1] \o sep \o join(Tail(pieces), sep)

\* mutant of csvCell: the quotes inside a quoted value are not doubled
csvCellQuotesNotDoubled(value) ==
  IF value.type = "string" /\ (includes(value.str, ",") \/ includes(value.str, "\""))
    THEN <<"\"">> \o value.str \o <<"\"">>
  ELSE IF value.type = "string" THEN value.str
  ELSE IF value.type = "number" THEN NumberToString(value.num)
  ELSE <<>>

\* the text one value contributes to its row
csvCell(value) ==
  IF value.type = "string" /\ (includes(value.str, ",") \/ includes(value.str, "\""))
    THEN <<"\"">> \o doubleQuotes(value.str) \o <<"\"">>
  ELSE IF value.type = "string" THEN value.str
  ELSE IF value.type = "number" THEN NumberToString(value.num)
  ELSE <<>>

convertToCSV(data, fields) ==
  IF ~data.defined \/ Len(data.items) = 0 THEN <<>>
  ELSE LET headers == join([j \in 1..Len(fields) |-> fields[j].label], <<",">>)
           rows == [i \in 1..Len(data.items) |->
                      join([j \in 1..Len(fields) |-> csvCell(data.items[i][fields[j].key])],
                           <<",">>)]
       IN join(<<headers>> \o rows, <<"\n">>)

NotConverted == [done |-> FALSE, text |-> <<>>]

CsvIdle ==
  /\ csvData = [defined |-> TRUE, items |-> <<>>]
  /\ csvFields = <<FieldId>>
  /\ csvOut = NotConverted

\* one more record in the data to convert
csvPush(record) ==
  /\ csvData.defined
  /\ ~csvOut.done
  /\ Len(csvData.items) < MaxRecords
  /\ csvData' = [csvData EXCEPT !.items = Append(@, record)]
  /\ UNCHANGED <<csvFields, csvOut>>

\* the call convertToCSV(data, fields)
convertToCSV_call ==
  /\ ~csvOut.done
  /\ csvOut' = [done |-> TRUE, text |-> convertToCSV(csvData, csvFields)]
  /\ UNCHANGED <<csvData, csvFields>>

\* A reader of the file: RFC 4180 records and fields (a line break ends a record, a
\* comma ends a field, a field that starts with a double quote runs to its closing
\* quote, a doubled quote in it stands for one).
RECURSIVE parseFrom(_, _, _, _, _, _)
parseFrom(text, i, state, field, row, rows) ==
  IF i > Len(text)
    THEN IF state = "start" /\ row = <<>> THEN rows ELSE Append(rows, Append(row, field))
  ELSE LET c == text[i] IN
    IF state = "quoted"
      THEN IF c = "\"" THEN parseFrom(text, i + 1, "closing", field, row, rows)
           ELSE parseFrom(text, i + 1, "quoted", Append(field, c), row, rows)
    ELSE IF state = "closing" /\ c = "\""
      THEN parseFrom(text, i + 1, "quoted", Append(field, c), row, rows)
    ELSE IF c = ","
      THEN parseFrom(text, i + 1, "field", <<>>, Append(row, field), rows)
    ELSE IF c = "\n"
      THEN parseFrom(text, i + 1, "start", <<>>, <<>>, Append(rows, Append(row, field)))
    ELSE IF c = "\"" /\ state \in {"start", "field"}
      THEN parseFrom(text, i + 1, "quoted", field, row, rows)
    ELSE parseFrom(text, i + 1, "unquoted", Append(field, c), row, rows)

parseCSV(text) == parseFrom(text, 1, "start", <<>>, <<>>, <<>>)

----------------------------------------------------------------------------
(* CampaignsPage.js: the upload tab of the ad manager                      *)

\* 100 * 1024 * 1024
UploadLimit == 100 * 1024 * 1024

\* the files the operator may pick
FileTypes == {"video/mp4", "image/png", "application/pdf"}
Files == [type : FileTypes, size : {UploadLimit - 1, UploadLimit, UploadLimit + 1}]

\* file.type.startsWith('video/')
startsWithVideo(type) ==
  CASE type = "video/mp4" -> TRUE
    [] type = "image/png" -> FALSE
    [] type = "application/pdf" -> FALSE
    [] OTHER -> FALSE

\* mutant of fileAccepted: the size is not looked at
fileAcceptedAnySize(file) == startsWithVideo(file.type)

\* the two checks of handleFileSelect
fileAccepted(file) == startsWithVideo(file.type) /\ ~(file.size > UploadLimit)

\* handleFileSelect: the change event of the file input with the file picked
handleFileSelect(file) ==
  /\ isAdDialogOpen
  /\ adFormFile' = IF fileAccepted(file) THEN file ELSE adFormFile
  /\ UNCHANGED <<isUploading, uploadProgress, strayInterval, camVars>>

\* campaignAPI.uploadAd: POST /campaigns/{id}/ads with the file
campaignAPI_uploadAd(campaignId, file) ==
  Req("POST_AD", campaignId, [NoArg EXCEPT !.file = file, !.campaign = campaignId],
      "handleUploadAd")

\* handleUploadAd up to its await; without file or campaign it returns at once
handleUploadAd ==
  /\ ~isUploading
  /\ IF adFormFile = NoFile \/ selectedCampaign = ""
       THEN UNCHANGED <<isUploading, uploadProgress, net>>
       ELSE /\ isUploading' = TRUE
            /\ uploadProgress' = 10
            /\ net' = net (+) One(campaignAPI_uploadAd(selectedCampaign, adFormFile))
  /\ UNCHANGED <<adFormFile, strayInterval, pageVars, dbVars, obsVars>>

\* mutant of progressStep: the progress is not capped
progressStepUncapped(prev) == prev + 10

\* prev => Math.min(prev + 10, 90)
progressStep(prev) == IF prev + 10 < 90 THEN prev + 10 ELSE 90

\* the progress interval fires (every 500 ms): that of the upload in flight, or one
\* that was never cleared
progressInterval_fires ==
  /\ isUploading \/ strayInterval
  /\ uploadProgress' = progressStep(uploadProgress)
  /\ uploadProgress' # uploadProgress
  /\ UNCHANGED <<adFormFile, isUploading, strayInterval, camVars>>

\* handleUploadAd, after the await: on success the progress interval is cleared, the
\* progress set to 100, the form reset and the ads and the campaigns loaded again; on
\* failure the interval is left running; in both cases the finally block then sets
\* isUploading to false and the progress to 0
handleUploadAd_done(m) ==
  /\ m.op = "POST_AD"
  /\ IF m.ok
       THEN /\ adFormFile' = NoFile
            /\ net' = ((net (-) One(m)) (+) One(campaignAPI_getAds(m.arg.campaign)))
                        (+) One(LoadRequest)
       ELSE /\ net' = net (-) One(m)
            /\ UNCHANGED adFormFile
  /\ strayInterval' = (strayInterval \/ ~m.ok)
  /\ isUploading' = FALSE
  /\ uploadProgress' = 0
  /\ UNCHANGED <<pageVars, dbVars, obsVars>>

\* POST /campaigns/{id}/ads: the campaign has one more ad
StoreUploadAd(r) ==
  /\ r.op = "POST_AD"
  /\ \E a \in AdIds :
       /\ AdCampaign(a) = r.id
       /\ dbAds' = dbAds \cup {a}
  /\ Answer(r, Res(r, TRUE, NoData))
  /\ UNCHANGED <<dbCampaigns, dbImpressions, pageVars, obsVars>>

----------------------------------------------------------------------------
(* DevicesPage.js and DashboardPage.js: the device list and its polling,   *)
(* over the store's devices and drivers.  Time is counted in units of ten  *)
(* seconds, so the interval of 30000 ms is 3.                              *)

DeviceIds == {"d1", "d2"}
DriverIds == {"r1"}
PollingPages == {"/devices", "/dashboard"}

\* setInterval(loadData, 30000)
PollInterval == 3

\* a time that may be absent: last_seen = null, no timer, nothing loaded
None == [some |-> FALSE, at |-> 0]
Some(t) == [some |-> TRUE, at |-> t]

NoDevice == [present |-> FALSE, status |-> "", last_seen |-> None, driver_id |-> "", city |-> ""]
NoDevices == [d \in DeviceIds |-> NoDevice]

FleetReq(op, id) ==
  [dir |-> "req", op |-> op, id |-> id, inst |-> instance, sentAt |-> clock,
   ok |-> TRUE, data |-> NoDevices, dataAt |-> None]

FleetRes(r, ok, data, at) ==
  [r EXCEPT !.dir = "res", !.ok = ok, !.data = data, !.dataAt = at]

FleetRequests == {m \in BagToSet(fleetNet) : m.dir = "req"}
FleetResponses == {m \in BagToSet(fleetNet) : m.dir = "res"}

\* deviceAPI.list() and the other GETs of loadData, awaited together
deviceAPI_list == FleetReq("LIST", "")

\* deviceAPI.delete: DELETE /devices/{id}
deviceAPI_delete(id) == One(FleetReq("DELETE_DEVICE", id))

\* mutant of driverAPI_delete: the devices of the driver are deleted with it
driverAPI_deleteWithDevices(id) ==
  One(FleetReq("DELETE_DRIVER", id))
    (+) SetToBag({FleetReq("DELETE_DEVICE", d) : d \in {e \in DeviceIds : dbDevices[e].driver_id = id}})

\* driverAPI.delete: DELETE /drivers/{id}
driverAPI_delete(id) == One(FleetReq("DELETE_DRIVER", id))

\* ---- the store: devices and drivers ----

\* the contract of the sweep: online if now - last_seen <= T, else offline
statusOf(last_seen, t, T) ==
  IF last_seen.some /\ t - last_seen.at <= T THEN "online" ELSE "offline"

\* a device pushes a heartbeat
Heartbeat(d) ==
  /\ dbDevices[d].present
  /\ dbDevices[d].last_seen # Some(clock)
  /\ dbDevices' = [dbDevices EXCEPT ![d].last_seen = Some(clock), ![d].status = "online"]
  /\ UNCHANGED <<clock, threshold, dbDrivers, fleetNet, mounted, instance, interval,
                 devices, dataAt, shownOf, Fleet_loading>>

\* the sweep (scheduled, or POST /admin/mark-offline): every status is recomputed
Sweep ==
  /\ dbDevices' = [d \in DeviceIds |->
                     IF dbDevices[d].present
                       THEN [dbDevices[d] EXCEPT
                               !.status = statusOf(dbDevices[d].last_seen, clock, threshold)]
                       ELSE dbDevices[d]]
  /\ dbDevices' # dbDevices
  /\ UNCHANGED <<clock, threshold, dbDrivers, fleetNet, mounted, instance, interval,
                 devices, dataAt, shownOf, Fleet_loading>>

FleetAnswer(r, s) == fleetNet' = (fleetNet (-) One(r)) (+) One(s)

\* GET /devices
StoreListDevices(r) ==
  /\ r.op = "LIST"
  /\ FleetAnswer(r, FleetRes(r, TRUE, dbDevices, Some(clock)))
  /\ UNCHANGED <<clock, threshold, dbDevices, dbDrivers, mounted, instance, interval,
                 devices, dataAt, shownOf, Fleet_loading>>

\* DELETE /devices/{id}
StoreDeleteDevice(r) ==
  /\ r.op = "DELETE_DEVICE"
  /\ dbDevices' = [dbDevices EXCEPT ![r.id] = NoDevice]
  /\ FleetAnswer(r, FleetRes(r, TRUE, NoDevices, None))
  /\ UNCHANGED <<clock, threshold, dbDrivers, mounted, instance, interval,
                 devices, dataAt, shownOf, Fleet_loading>>

\* DELETE /drivers/{id}: the driver goes; a device that refers to it keeps the
\* reference or has it cleared
StoreDeleteDriver(r, cleared) ==
  /\ r.op = "DELETE_DRIVER"
  /\ dbDrivers' = dbDrivers \ {r.id}
  /\ dbDevices' = [d \in DeviceIds |->
                     IF cleared /\ dbDevices[d].driver_id = r.id
                       THEN [dbDevices[d] EXCEPT !.driver_id = ""]
                       ELSE dbDevices[d]]
  /\ FleetAnswer(r, FleetRes(r, TRUE, NoDevices, None))
  /\ UNCHANGED <<clock, threshold, mounted, instance, interval, devices, dataAt, shownOf, Fleet_loading>>

\* a network or server error
FleetRequestFails(r) ==
  /\ FleetAnswer(r, FleetRes(r, FALSE, NoDevices, None))
  /\ UNCHANGED <<clock, threshold, dbDevices, dbDrivers, mounted, instance, interval,
                 devices, dataAt, shownOf, Fleet_loading>>

\* ten seconds pass: no earlier than the timer allows, and no request takes longer
\* than maxLatency to be answered and taken
TimePasses(maxLatency) ==
  /\ interval.some => clock < interval.at
  /\ \A m \in BagToSet(fleetNet) : clock < m.sentAt + maxLatency
  /\ clock' = clock + 1
  /\ UNCHANGED <<threshold, dbDevices, dbDrivers, fleetNet, mounted, instance, interval,
                 devices, dataAt, shownOf, Fleet_loading>>

\* ---- the pages ----

\* useEffect at mount: loadData(), setInterval(loadData, 30000)
mount(page) ==
  /\ mounted = ""
  /\ mounted' = page
  /\ instance' = instance + 1
  /\ devices' = NoDevices
  /\ dataAt' = None
  /\ shownOf' = None
  /\ Fleet_loading' = TRUE
  /\ fleetNet' = fleetNet (+) One([deviceAPI_list EXCEPT !.inst = instance + 1])
  /\ interval' = Some(clock + PollInterval)
  /\ UNCHANGED <<clock, threshold, dbDevices, dbDrivers>>

\* the cleanup of useEffect: clearInterval(interval)
unmount ==
  /\ mounted # ""
  /\ mounted' = ""
  /\ interval' = None
  /\ devices' = NoDevices
  /\ dataAt' = None
  /\ shownOf' = None
  /\ Fleet_loading' = TRUE
  /\ UNCHANGED <<clock, threshold, dbDevices, dbDrivers, fleetNet, instance>>

\* the timer fires: loadData()
interval_fires ==
  /\ interval = Some(clock)
  /\ fleetNet' = fleetNet (+) One(deviceAPI_list)
  /\ interval' = Some(clock + PollInterval)
  /\ UNCHANGED <<clock, threshold, dbDevices, dbDrivers, mounted, instance,
                 devices, dataAt, shownOf, Fleet_loading>>

\* loadData after the await; a response to a page no longer mounted sets nothing
Fleet_loadData_done(m) ==
  /\ m.dir = "res" /\ m.op = "LIST"
  /\ fleetNet' = fleetNet (-) One(m)
  /\ IF mounted # "" /\ m.inst = instance
       THEN /\ IF m.ok THEN devices' = m.data /\ dataAt' = m.dataAt /\ shownOf' = Some(m.sentAt)
                       ELSE UNCHANGED <<devices, dataAt, shownOf>>
            /\ Fleet_loading' = loadingAfter(m.ok)
       ELSE UNCHANGED <<devices, dataAt, shownOf, Fleet_loading>>
  /\ UNCHANGED <<clock, threshold, dbDevices, dbDrivers, mounted, instance, interval>>

\* DevicesPage.js handleDeleteDevice, confirmed
handleDeleteDevice(deviceId) ==
  /\ mounted = "/devices" /\ ~Fleet_loading
  /\ devices[deviceId].present
  /\ fleetNet' = fleetNet (+) deviceAPI_delete(deviceId)
  /\ UNCHANGED <<clock, threshold, dbDevices, dbDrivers, mounted, instance, interval,
                 devices, dataAt, shownOf, Fleet_loading>>

handleDeleteDevice_done(m) ==
  /\ m.dir = "res" /\ m.op = "DELETE_DEVICE"
  /\ fleetNet' = IF m.ok /\ mounted # "" /\ m.inst = instance
                   THEN (fleetNet (-) One(m)) (+) One(deviceAPI_list)
                   ELSE fleetNet (-) One(m)
  /\ UNCHANGED <<clock, threshold, dbDevices, dbDrivers, mounted, instance, interval,
                 devices, dataAt, shownOf, Fleet_loading>>

\* a caller of driverAPI.delete (no page of the dashboard calls it)
driverAPI_delete_call(id) ==
  /\ id \in dbDrivers
  /\ fleetNet' = fleetNet (+) driverAPI_delete(id)
  /\ UNCHANGED <<clock, threshold, dbDevices, dbDrivers, mounted, instance, interval,
                 devices, dataAt, shownOf, Fleet_loading>>

driverAPI_delete_done(m) ==
  /\ m.dir = "res" /\ m.op = "DELETE_DRIVER"
  /\ fleetNet' = fleetNet (-) One(m)
  /\ UNCHANGED <<clock, threshold, dbDevices, dbDrivers, mounted, instance, interval,
                 devices, dataAt, shownOf, Fleet_loading>>

\* ---- rendering ----

\* device.status === 'online'
shownOnline(device) == device.status = "online"

\* mutant of onlineCount: every device counts as online
onlineCountOfAll == Cardinality({d \in DeviceIds : devices[d].present})

\* devices.filter(d => d.status === 'online').length
onlineCount == Cardinality({d \in DeviceIds : devices[d].present /\ devices[d].status = "online"})

\* devices.length - onlineCount
offlineCount == Cardinality({d \in DeviceIds : devices[d].present}) - onlineCount

\* ---- DevicesPage.js: the filters of the list ----

Filters == {"all", "online", "offline"}
Cities == {"Colombo", "Kandy"}

\* mutant of filteredDevicesWhen: the offline filter keeps the devices whose status is 'offline'
filteredDevicesStrict(filter, cityFilter) ==
  {d \in DeviceIds :
     /\ devices[d].present
     /\ ~(filter = "online" /\ devices[d].status # "online")
     /\ ~(filter = "offline" /\ devices[d].status # "offline")
     /\ ~(cityFilter # "" /\ devices[d].city # cityFilter)}

\* devices.filter(device => ...) with the filter and the city filter given
filteredDevicesWhen(filter, cityFilter) ==
  {d \in DeviceIds :
     /\ devices[d].present
     /\ ~(filter = "online" /\ devices[d].status # "online")
     /\ ~(filter = "offline" /\ devices[d].status = "online")
     /\ ~(cityFilter # "" /\ devices[d].city # cityFilter)}

\* the rows of the table
filteredDevices == filteredDevicesWhen(Devices_filter, Devices_cityFilter)

\* the buttons All, Online, Offline: onClick={() => setFilter(...)}
setFilter(f) ==
  /\ mounted = "/devices"
  /\ f # Devices_filter
  /\ Devices_filter' = f
  /\ UNCHANGED <<clock, threshold, dbDevices, dbDrivers, fleetNet, mounted, instance, interval,
                 devices, dataAt, shownOf, Fleet_loading, Devices_cityFilter>>

\* the city select: onValueChange={(v) => setCityFilter(v === "all" ? "" : v)}
setCityFilter(v) ==
  /\ mounted = "/devices"
  /\ Devices_cityFilter' = IF v = "all" THEN "" ELSE v
  /\ Devices_cityFilter' # Devices_cityFilter
  /\ UNCHANGED <<clock, threshold, dbDevices, dbDrivers, fleetNet, mounted, instance, interval,
                 devices, dataAt, shownOf, Fleet_loading, Devices_filter>>

\* no polling page mounted, the store without devices
FleetIdle ==
  /\ clock = 0
  /\ threshold = 1
  /\ dbDevices = NoDevices
  /\ dbDrivers = {}
  /\ fleetNet = EmptyBag
  /\ mounted = ""
  /\ instance = 0
  /\ interval = None
  /\ devices = NoDevices
  /\ dataAt = None
  /\ shownOf = None
  /\ Devices_filter = "all"
  /\ Devices_cityFilter = ""
  /\ Fleet_loading = TRUE

----------------------------------------------------------------------------
(* context/AuthContext.js, ProtectedRoute, App.js and the request          *)
(* interceptor of lib/api.js.  The identity provider holds the current     *)
(* session; a change of it (sign in, sign out, refresh, expiry) reaches    *)
(* the context through onAuthStateChange.                                  *)

NoToken == [parts |-> 0, payload |-> "none"]

\* what JSON.parse(atob(...)) makes of the second part of a token: a throw, or an
\* object with or without the claim user_role
Payloads == {"not-base64", "not-json", "no-claim", "role:", "role:admin", "role:customer"}

\* access tokens: three dot-separated parts, or a string without a dot
Tokens == {[parts |-> 3, payload |-> p] : p \in Payloads} \cup {[parts |-> 1, payload |-> "none"]}

NoUser == "null"
NoSession == [user |-> NoUser, access_token |-> NoToken]

\* the sessions the provider may hold: none, or a user's with or without access token
Sessions == {NoSession} \cup [user : {"u1"}, access_token : Tokens \cup {NoToken}]

\* try { payload = JSON.parse(atob(token.split('.')[1])); payload.user_role || 'customer' }
\* catch (e) { 'customer' }
roleOfTokenElseAdmin(token) ==
  IF token.parts < 2 \/ token.payload \in {"not-base64", "not-json"} THEN "customer"
  ELSE IF token.payload = "role:customer" THEN "customer" ELSE "admin"

roleOfToken(token) ==
  IF token.parts < 2 \/ token.payload \in {"not-base64", "not-json"} THEN "customer"
  ELSE IF token.payload = "role:admin" THEN "admin" ELSE "customer"

Pending == [settled |-> FALSE, session |-> NoSession]
Resolved(s) == [settled |-> TRUE, session |-> s]

\* supabase.auth.getSession(), called once at mount, answers with the session the
\* provider holds at that moment; the callback passed to then runs later
getSession_resolve ==
  /\ ~getSessionResult.settled
  /\ getSessionResult' = Resolved(supabaseSession)
  /\ UNCHANGED <<supabaseSession, Auth_session, Auth_user, Auth_loading, Auth_userRole,
                 location, intercepting, sent>>

\* mutant of onAuthStateChange_role: the role is left as it is without a token
onAuthStateChange_roleKept(s) ==
  IF s.access_token # NoToken THEN roleOfToken(s.access_token) ELSE Auth_userRole

\* if (session?.access_token) { setUserRole(...) } else { setUserRole(null) }
onAuthStateChange_role(s) ==
  IF s.access_token # NoToken THEN roleOfToken(s.access_token) ELSE "null"

\* the callback of supabase.auth.getSession().then(...): runs once, with the session
\* getSession answered
getSession_then ==
  /\ Auth_loading
  /\ getSessionResult.settled
  /\ Auth_session' = getSessionResult.session
  /\ Auth_user' = getSessionResult.session.user
  /\ Auth_userRole' = IF getSessionResult.session.access_token # NoToken
                      THEN roleOfToken(getSessionResult.session.access_token)
                      ELSE Auth_userRole
  /\ Auth_loading' = FALSE
  /\ UNCHANGED <<supabaseSession, getSessionResult, location, intercepting, sent>>

\* the provider's session becomes s and the onAuthStateChange callback runs
onAuthStateChange(s) ==
  /\ s # supabaseSession
  /\ supabaseSession' = s
  /\ Auth_session' = s
  /\ Auth_user' = s.user
  /\ Auth_userRole' = onAuthStateChange_role(s)
  /\ UNCHANGED <<getSessionResult, Auth_loading, location, intercepting, sent>>

\* ---- ProtectedRoute and the routes of App.js ----

LoadingScreen == [kind |-> "loading-screen", to |-> ""]
Navigate(to) == [kind |-> "navigate", to |-> to]
Page(name) == [kind |-> "page", to |-> name]

ProtectedRoute(children, requiredRoles) ==
  IF Auth_loading THEN LoadingScreen
  ELSE IF Auth_user = NoUser THEN Navigate("/login")
  ELSE IF requiredRoles # {} /\ Auth_userRole \notin requiredRoles THEN Navigate("/unauthorized")
  ELSE children

AdminPaths == {"/devices", "/drivers", "/clients"}
SignedInPaths == {"/dashboard", "/campaigns", "/analytics"}
Paths == AdminPaths \cup SignedInPaths \cup {"/login", "/", "/unauthorized"}

\* the element the route at path yields
App(path) ==
  IF path = "/" THEN Navigate("/dashboard")
  ELSE IF path \in AdminPaths THEN ProtectedRoute(Page(path), {"admin"})
  ELSE IF path \in SignedInPaths THEN ProtectedRoute(Page(path), {})
  ELSE Page(path)

\* ---- DashboardLayout.js: the sidebar ----

adminNavItems == <<"/dashboard", "/devices", "/drivers", "/campaigns", "/clients", "/analytics">>
customerNavItems == <<"/dashboard", "/campaigns", "/analytics">>

\* mutant of navItems: every role is offered the admin's links
navItemsOfAdmin(userRole) == adminNavItems

\* userRole === 'admin' ? adminNavItems : customerNavItems
navItems(userRole) == IF userRole = "admin" THEN adminNavItems ELSE customerNavItems

\* the layout is rendered by each of the pages behind ProtectedRoute
LayoutRendered == location \in AdminPaths \cup SignedInPaths /\ App(location) = Page(location)

\* the operator opens a path (a link of the layout, the address bar)
goto(path) ==
  /\ path # location
  /\ location' = path
  /\ UNCHANGED <<supabaseSession, getSessionResult, Auth_session, Auth_user, Auth_loading,
                 Auth_userRole,
                 intercepting, sent>>

\* <Navigate to=... replace />
Navigate_replace ==
  /\ App(location).kind = "navigate"
  /\ location' = App(location).to
  /\ UNCHANGED <<supabaseSession, getSessionResult, Auth_session, Auth_user, Auth_loading,
                 Auth_userRole,
                 intercepting, sent>>

\* ---- LoginPage: handleLogin ----

\* handleLogin, up to its await; the submit button is disabled while loading
handleLogin ==
  /\ location = "/login"
  /\ ~Login_loading
  /\ Login_loading' = TRUE
  /\ signIn' = "pending"
  /\ UNCHANGED <<supabaseSession, getSessionResult, Auth_session, Auth_user, Auth_loading,
                 Auth_userRole, location, intercepting, sent>>

\* supabase.auth.signInWithPassword answers: with a session, which the provider
\* announces by onAuthStateChange, or with an error
signInWithPassword_answers(s) ==
  /\ signIn = "pending"
  /\ IF s = NoSession
       THEN /\ signIn' = "error"
            /\ UNCHANGED <<supabaseSession, Auth_session, Auth_user, Auth_userRole>>
       ELSE /\ s.access_token # NoToken
            /\ supabaseSession' = s
            /\ Auth_session' = s
            /\ Auth_user' = s.user
            /\ Auth_userRole' = onAuthStateChange_role(s)
            /\ signIn' = "ok"
  /\ UNCHANGED <<getSessionResult, Auth_loading, Login_loading, location, intercepting, sent>>

\* handleLogin, after its await: if (error) throw error; navigate('/dashboard');
\* finally { setLoading(false) }
handleLogin_done ==
  /\ signIn \in {"ok", "error"}
  /\ location' = IF signIn = "ok" THEN "/dashboard" ELSE location
  /\ Login_loading' = FALSE
  /\ signIn' = "none"
  /\ UNCHANGED <<supabaseSession, getSessionResult, Auth_session, Auth_user, Auth_loading,
                 Auth_userRole, intercepting, sent>>

\* ---- lib/api.js: the request interceptor ----

NoAuthorization == [scheme |-> "", token |-> NoToken]
Bearer(token) == [scheme |-> "Bearer", token |-> token]
NoRequest == [url |-> "", Authorization |-> NoAuthorization]

\* the page rendered at the location calls the API (the list of its loadData): the
\* interceptor starts and awaits supabase.auth.getSession()
api_request ==
  /\ App(location).kind = "page"
  /\ location \in AdminPaths \cup SignedInPaths
  /\ Cardinality(intercepting) < MaxIntercepting
  /\ intercepting' = intercepting \cup {location}
  /\ UNCHANGED <<supabaseSession, getSessionResult, Auth_session, Auth_user, Auth_loading,
                 Auth_userRole,
                 location, sent>>

\* if (session?.access_token) config.headers.Authorization = `Bearer ${...}`
interceptor(url, session) ==
  [url |-> url,
   Authorization |-> IF session.access_token # NoToken
                     THEN Bearer(session.access_token) ELSE NoAuthorization]

\* getSession has answered: the interceptor returns the config and the request is sent
interceptor_done(url) ==
  /\ url \in intercepting
  /\ intercepting' = intercepting \ {url}
  /\ sent' = interceptor(url, supabaseSession)
  /\ UNCHANGED <<supabaseSession, getSessionResult, Auth_session, Auth_user, Auth_loading,
                 Auth_userRole,
                 location>>

\* AuthProvider as mounted at "/" with no request made
AuthMounted ==
  /\ getSessionResult = Pending
  /\ Login_loading = FALSE
  /\ signIn = "none"
  /\ Auth_session = NoSession
  /\ Auth_user = NoUser
  /\ Auth_loading = TRUE
  /\ Auth_userRole = "null"
  /\ location = "/"
  /\ intercepting = {}
  /\ sent = NoRequest

\* the parts of the application outside the specification at hand, at rest
AppIdle ==
  /\ supabaseSession = NoSession
  /\ AuthMounted
  /\ FleetIdle

----------------------------------------------------------------------------
(* Specification Spec: the campaign lifecycle.  Two stored campaigns, the   *)
(* status buttons, the ad manager's list and delete, impressions arriving. *)

ExistingCampaign(s) ==
  [present |-> TRUE, status |-> s, client_id |-> "k1", name |-> "n0",
   start_date |-> "d0", end_date |-> "d1"]

\* CampaignsPage as mounted: the useState initial values, loadData started
PageMounted ==
  /\ campaigns = [c \in CampaignIds |-> NoCampaign]
  /\ campaignStats = [c \in CampaignIds |-> NoStats]
  /\ loading = TRUE
  /\ isDialogOpen = FALSE
  /\ formData = EmptyForm
  /\ selectedCampaign = ""
  /\ isAdDialogOpen = FALSE
  /\ campaignAds = {}
  /\ net = One(LoadRequest)
  /\ clean = TRUE
  /\ clickLog = NoLog
  /\ now = 0
  /\ route = "/campaigns"
  /\ OtherPagesUnmounted
  /\ CsvIdle
  /\ adFormFile = NoFile
  /\ isUploading = FALSE
  /\ uploadProgress = 0
  /\ strayInterval = FALSE
  /\ AppIdle

Init ==
  /\ \E s \in Statuses :
       /\ dbCampaigns = [c \in CampaignIds |->
                           IF c = "c1" THEN ExistingCampaign(s) ELSE ExistingCampaign("PAUSED")]
       /\ trail = [c \in CampaignIds |-> IF c = "c1" THEN <<s>> ELSE <<"PAUSED">>]
  /\ dbAds = AdIds
  /\ dbImpressions = [c \in CampaignIds |-> 0]
  /\ PageMounted

\* the operator acts while fewer than n messages are in flight
CanSend(n) == InFlight < n

\* a step taken while CampaignsPage is the mounted page
OnCampaignsPage(A) == A /\ UNCHANGED <<revVars, csvVars, upVars, appVars>>

Next ==
  \/ \E r \in Requests : OnCampaignsPage(StoreList(r))
  \/ \E r \in Requests : OnCampaignsPage(StoreUpdateStatus(r))
  \/ \E r \in Requests : OnCampaignsPage(RequestFails(r))
  \/ \E a \in AdIds : OnCampaignsPage(RecordImpression(a))
  \/ \E m \in Responses : OnCampaignsPage(loadData_done(m))
  \/ \E m \in Responses : OnCampaignsPage(handleStatusChange_done(m))
  \/ \E c \in CampaignIds : OnCampaignsPage(CanSend(MaxInflight) /\ handleStatusChange(c))

Spec == Init /\ [][Next]_vars

----------------------------------------------------------------------------
(* Specification SpecCreate: the New Campaign form.  The store holds one   *)
(* campaign; another is created through the form, and both are activated   *)
(* and paused while the days pass.                                         *)

InitCreate ==
  /\ dbCampaigns = [c \in CampaignIds |-> IF c = "c1" THEN ExistingCampaign("ACTIVE") ELSE NoCampaign]
  /\ trail = [c \in CampaignIds |-> IF c = "c1" THEN <<"ACTIVE">> ELSE <<>>]
  /\ dbAds = {}
  /\ dbImpressions = [c \in CampaignIds |-> 0]
  /\ PageMounted

NextCreate ==
  \/ \E r \in Requests : OnCampaignsPage(StoreList(r))
  \/ \E r \in Requests : OnCampaignsPage(StoreUpdateStatus(r))
  \/ \E r \in Requests : OnCampaignsPage(StoreCreate(r))
  \/ \E r \in Requests : OnCampaignsPage(RequestFails(r))
  \/ \E m \in Responses : OnCampaignsPage(loadData_done(m))
  \/ \E m \in Responses : OnCampaignsPage(handleStatusChange_done(m))
  \/ \E m \in Responses : OnCampaignsPage(handleSubmit_done(m))
  \/ \E c \in CampaignIds : OnCampaignsPage(CanSend(MaxInflightCreate) /\ handleStatusChange(c))
  \/ \E b \in BOOLEAN : OnCampaignsPage(setIsDialogOpen(b))
  \/ \E f \in FormFields : \E v \in FieldValues(f) : OnCampaignsPage(setFormData(f, v))
  \/ OnCampaignsPage(CanSend(MaxInflightCreate) /\ handleSubmit)
  \/ OnCampaignsPage(Tick)

SpecCreate == InitCreate /\ [][NextCreate]_vars

----------------------------------------------------------------------------
(* Specification SpecAds: the campaign lifecycle together with the ad      *)
(* manager's list and delete.                                              *)

NextAds ==
  \/ \E r \in Requests : OnCampaignsPage(StoreList(r))
  \/ \E r \in Requests : OnCampaignsPage(StoreUpdateStatus(r))
  \/ \E r \in Requests : OnCampaignsPage(StoreDeleteAd(r))
  \/ \E r \in Requests : OnCampaignsPage(StoreGetAds(r))
  \/ \E r \in Requests : OnCampaignsPage(RequestFails(r))
  \/ \E a \in AdIds : OnCampaignsPage(RecordImpression(a))
  \/ \E m \in Responses : OnCampaignsPage(loadData_done(m))
  \/ \E m \in Responses : OnCampaignsPage(handleStatusChange_done(m))
  \/ \E m \in Responses : OnCampaignsPage(loadCampaignAds_done(m))
  \/ \E m \in Responses : OnCampaignsPage(handleDeleteAd_done(m))
  \/ \E c \in CampaignIds : OnCampaignsPage(CanSend(MaxInflightAds) /\ handleStatusChange(c))
  \/ \E c \in CampaignIds : OnCampaignsPage(CanSend(MaxInflightAds) /\ openAdManager(c))
  \/ OnCampaignsPage(setIsAdDialogOpen_false)
  \/ \E a \in AdIds : OnCampaignsPage(CanSend(MaxInflightAds) /\ handleDeleteAd(a))

SpecAds == Init /\ [][NextAds]_vars

----------------------------------------------------------------------------
(* Campaign lifecycle: the properties                                      *)

\* the requests a step puts in flight, and the requests a step takes out of flight
Issued == {m \in BagToSet(net') : m.dir = "req" /\ CopiesIn(m, net') > CopiesIn(m, net)}

Handled == {r \in Requests : CopiesIn(r, net') < CopiesIn(r, net)}

IsStatusRequest(m, status) == m.op = "PUT_STATUS" /\ m.arg.new_status = status

\* C1: a status change to ACTIVE is requested only for a campaign whose status, as
\* the page shows it, is SCHEDULED or PAUSED; never for one that is ACTIVE or
\* COMPLETED.
C1_ActivateOnlyFromScheduledOrPaused ==
  [][\A m \in Issued :
       IsStatusRequest(m, "ACTIVE") => StatusBadge(campaigns[m.id]) \in {"SCHEDULED", "PAUSED"}]_vars

\* C2: a status change to PAUSED is requested only for a campaign whose status, as
\* the page shows it, is ACTIVE (for a campaign shown SCHEDULED, PAUSED or COMPLETED
\* no pause request is sent), and a stored campaign becomes PAUSED only from ACTIVE.
C2_PauseOnlyFromActive ==
  [][/\ \A m \in Issued :
          IsStatusRequest(m, "PAUSED") => StatusBadge(campaigns[m.id]) = "ACTIVE"
     /\ \A c \in CampaignIds :
          (dbCampaigns'[c].status = "PAUSED" /\ dbCampaigns[c].status # "PAUSED")
            => dbCampaigns[c].status = "ACTIVE"]_vars

\* C2 witness: a campaign loaded as ACTIVE was paused by its button
C2_Witness ==
  /\ clean
  /\ trail["c1"] = <<"ACTIVE", "PAUSED">>
  /\ clickLog["c1"] = <<"PAUSED">>

\* the statuses an observed run of clicks on a SCHEDULED campaign goes through
Alternating(i) == IF i % 2 = 0 THEN "ACTIVE" ELSE "PAUSED"

\* C3: from SCHEDULED, status clicks each made on the reloaded list and each
\* succeeding are activate, pause, activate, ...: the stored campaign goes through
\* ACTIVE, PAUSED, ACTIVE in that order and no other status, and after the third
\* click and its reload the campaign is ACTIVE in the store and on the page.
C3_ActivatePauseActivate ==
  \A c \in CampaignIds :
    (clean /\ trail[c] # <<>> /\ trail[c][1] = "SCHEDULED") =>
      /\ \A i \in 2..Len(trail[c]) : trail[c][i] = Alternating(i)
      /\ \A i \in 1..Len(clickLog[c]) : clickLog[c][i] = Alternating(i + 1)
      /\ (Len(clickLog[c]) = 3 /\ InSync(c)) =>
            /\ trail[c] = <<"SCHEDULED", "ACTIVE", "PAUSED", "ACTIVE">>
            /\ dbCampaigns[c].status = "ACTIVE"
            /\ StatusBadge(campaigns[c]) = "ACTIVE"

\* C3 witness: the three clicks were made and the list reloaded
C3_Witness ==
  /\ clean
  /\ InSync("c1")
  /\ clickLog["c1"] = <<"ACTIVE", "PAUSED", "ACTIVE">>
  /\ trail["c1"] = <<"SCHEDULED", "ACTIVE", "PAUSED", "ACTIVE">>

\* C4: every status-change request carries new_status ACTIVE or PAUSED, and no step
\* makes a stored campaign COMPLETED.
C4_NeverCompleted ==
  [][/\ \A m \in Issued : m.op = "PUT_STATUS" => m.arg.new_status \in {"ACTIVE", "PAUSED"}
     /\ \A c \in CampaignIds :
          dbCampaigns'[c].status = "COMPLETED" => dbCampaigns[c].status = "COMPLETED"]_vars

\* C4 witness: a campaign stored as COMPLETED was activated by its button
C4_Witness ==
  /\ clean
  /\ trail["c1"] = <<"COMPLETED", "ACTIVE">>
  /\ dbCampaigns["c1"].status = "ACTIVE"

\* C5: a status click sends one request, the status change of that campaign with
\* new_status alone; the store, handling it, changes the status field of that
\* campaign and nothing else (ads, impressions, other campaigns, the campaign's
\* other fields); the page, on the response, only reloads.
C5_StatusChangeFrame ==
  [][/\ \A m \in Issued :
          m.origin = "handleStatusChange" =>
            /\ Issued = {m}
            /\ CopiesIn(m, net') = CopiesIn(m, net) + 1
            /\ m.op = "PUT_STATUS"
            /\ m.id \in CampaignIds /\ m.arg.new_status = StatusButton(campaigns[m.id])
            /\ m.arg = [NoArg EXCEPT !.new_status = m.arg.new_status]
     /\ \A r \in Handled :
          r.op = "PUT_STATUS" =>
            /\ dbAds' = dbAds
            /\ dbImpressions' = dbImpressions
            /\ campaignAds' = campaignAds
            /\ dbCampaigns' = [dbCampaigns EXCEPT ![r.id].status = dbCampaigns'[r.id].status]
     /\ \A m \in Responses :
          (m.op = "PUT_STATUS" /\ CopiesIn(m, net') < CopiesIn(m, net)) =>
            /\ Issued \subseteq {LoadRequest}
            /\ UNCHANGED <<dbCampaigns, dbAds, dbImpressions, campaignAds>>]_vars

\* C5 witness: a campaign with an ad and an impression was paused; ad and
\* impression are still there and the page still counts the impression
C5_Witness ==
  /\ clean
  /\ trail["c1"] = <<"ACTIVE", "PAUSED">>
  /\ InSync("c1")
  /\ campaigns["c1"].status = "PAUSED"
  /\ "a1" \in dbAds
  /\ dbImpressions["c1"] = 1
  /\ ShownImpressions("c1") = 1

\* C6: the create request carries name, client_id, start_date and end_date of the
\* form and nothing else; a campaign is created SCHEDULED; a stored status changes
\* only when the store handles a status request, and a status request is sent only
\* by a click on a status button; a day passing sends nothing and changes nothing.
C6_CreatedScheduled ==
  [][/\ \A m \in Issued :
          m.op = "POST_CAMPAIGN" =>
            /\ DOMAIN m.arg.form = {"name", "client_id", "start_date", "end_date"}
            /\ \A f \in DOMAIN m.arg.form : m.arg.form[f] = formData[f]
            /\ m.arg.new_status = ""
     /\ \A c \in CampaignIds :
          (~dbCampaigns[c].present /\ dbCampaigns'[c].present) =>
            dbCampaigns'[c].status = "SCHEDULED"
     /\ \A c \in CampaignIds :
          (dbCampaigns[c].present /\ dbCampaigns'[c].status # dbCampaigns[c].status) =>
            \E r \in Handled : r.id = c /\ IsStatusRequest(r, dbCampaigns'[c].status)
     /\ \A m \in Issued :
          m.op = "PUT_STATUS" =>
            /\ ~loading /\ campaigns[m.id].present
            /\ net' = net (+) One(m)
            /\ m.arg.new_status = StatusButton(campaigns[m.id])
            /\ now' = now
     /\ now' # now => UNCHANGED <<dbCampaigns, net, pageVars>>]_vars

\* C6 witness: a campaign created through the form is still SCHEDULED, in the
\* store and on the page, after its end date has passed
C6_Witness ==
  /\ dbCampaigns["c2"].present
  /\ dbCampaigns["c2"].status = "SCHEDULED"
  /\ campaigns["c2"].present
  /\ StatusBadge(campaigns["c2"]) = "SCHEDULED"
  /\ now > DateDay(dbCampaigns["c2"].end_date)

----------------------------------------------------------------------------
(* Specification SpecRevenue: the dashboard, clients and analytics pages,   *)
(* one mounted at a time, each loading what the store answers.              *)

\* CampaignsPage is not mounted and the store holds no campaign
CampaignsUnmounted ==
  /\ dbCampaigns = [c \in CampaignIds |-> NoCampaign]
  /\ dbAds = {}
  /\ dbImpressions = [c \in CampaignIds |-> 0]
  /\ campaigns = [c \in CampaignIds |-> NoCampaign]
  /\ campaignStats = [c \in CampaignIds |-> NoStats]
  /\ loading = TRUE
  /\ isDialogOpen = FALSE
  /\ formData = EmptyForm
  /\ selectedCampaign = ""
  /\ isAdDialogOpen = FALSE
  /\ campaignAds = {}
  /\ net = EmptyBag
  /\ clean = TRUE
  /\ clickLog = NoLog
  /\ trail = NoLog
  /\ now = 0
  /\ adFormFile = NoFile
  /\ isUploading = FALSE
  /\ uploadProgress = 0
  /\ strayInterval = FALSE

InitRevenue ==
  /\ route = "/dashboard"
  /\ ImpressionsUnloaded
  /\ anNet = EmptyBag
  /\ Dashboard_stats = Dashboard_initialStats
  /\ Clients_campaignStats = EmptyStatsMap
  /\ Analytics_overview = Analytics_initialOverview
  /\ Analytics_campaignStats = <<>>
  /\ Analytics_loading = TRUE
  /\ statsRes = <<>>
  /\ exported = <<>>
  /\ sentParams = {}
  /\ pendingLoads = 1
  /\ CampaignsUnmounted
  /\ CsvIdle
  /\ AppIdle

\* a step of one of the pages that show revenue
OnRevenuePages(A) == A /\ UNCHANGED <<camVars, csvVars, upVars, appVars>>

NextRevenue ==
  \/ \E path \in Routes : OnRevenuePages(navigate(path))
  \/ \E ok \in BOOLEAN : \E data \in OverviewResponses : OnRevenuePages(Dashboard_loadData(ok, data))
  \/ \E ok \in BOOLEAN : \E rows \in RowSeqs : OnRevenuePages(Clients_loadData(ok, rows))
  \/ \E ok \in BOOLEAN : OnRevenuePages(Clients_handleSubmit(ok))
  \/ OnRevenuePages(Dashboard_interval)
  \/ \E ok \in BOOLEAN : \E data \in OverviewResponses : \E rows \in RowSeqs :
       OnRevenuePages(Analytics_loadData(ok, data, rows))
  \/ \E campaignSelected \in BOOLEAN : OnRevenuePages(Analytics_loadImpressions(campaignSelected))
  \/ OnRevenuePages(handleExportCampaignReport)

SpecRevenue == InitRevenue /\ [][NextRevenue]_vars

----------------------------------------------------------------------------
(* Specification SpecCsv: convertToCSV applied to every list of fields and  *)
(* every sequence of records of the model.                                  *)

InitCsv ==
  /\ route = "/analytics"
  /\ OtherPagesUnmounted
  /\ CampaignsUnmounted
  /\ csvData \in {[defined |-> d, items |-> <<>>] : d \in BOOLEAN}
  /\ csvFields \in FieldLists
  /\ csvOut = NotConverted
  /\ AppIdle

NextCsv ==
  \/ \E record \in CsvRecords : csvPush(record) /\ UNCHANGED <<camVars, revVars, upVars, appVars>>
  \/ convertToCSV_call /\ UNCHANGED <<camVars, revVars, upVars, appVars>>

SpecCsv == InitCsv /\ [][NextCsv]_vars

----------------------------------------------------------------------------
(* Revenue, aggregation and export: the properties                         *)

\* the amount the specification gives an impression count: 0.10 each, a missing
\* count as none
ExpectedRevenue(count) == Money((IF count.defined THEN count.num ELSE 0) * 10)

\* C7: wherever revenue is shown or exported (dashboard cards, client cards and
\* clients total, analytics cards, table, chart and campaign report) it is the
\* impression count shown there times 0.10, the same rate on every page, and no
\* request of these pages carries a revenue parameter.
C7_RevenueIsCountTimesRate ==
  /\ \A f \in {"total_impressions", "today_impressions"} :
       Dashboard_stats[f].defined =>
         (IF f = "total_impressions" THEN Dashboard_totalRevenue ELSE Dashboard_todayRevenue)
           = Money(Dashboard_stats[f].num * 10)
  /\ \A k \in StatClientIds : getClientRevenue(k) = Money(Clients_shownImpressions(k) * 10)
  /\ Clients_totalRevenue = Money(Clients_totalImpressions * 10)
  /\ Analytics_totalRevenue = Money(OrZero(Analytics_overview.total_impressions).num * 10)
  /\ Analytics_todayRevenue = Money(OrZero(Analytics_overview.today_impressions).num * 10)
  /\ \A i \in 1..Len(Analytics_campaignStats) :
       Analytics_rowRevenue(i) = Money(OrZero(Analytics_campaignStats[i].total_impressions).num * 10)
  /\ \A i \in DOMAIN campaignChartData :
       campaignChartData[i].revenue = toFixed2(Money(campaignChartData[i].impressions * 10))
  /\ \A i \in 1..Len(exported) :
       exported[i].revenue = toFixed2(Money(OrZero(exported[i].total_impressions).num * 10))
  /\ "revenue" \notin sentParams

\* C7 witness: the analytics page shows and has exported the revenue of a campaign
\* with two impressions, after it sent the impressions query
C7_Witness ==
  /\ route = "/analytics"
  /\ Len(exported) = 1
  /\ exported[1].total_impressions = Num(2)
  /\ exported[1].revenue = [nan |-> FALSE, whole |-> 0, cents |-> 20]
  /\ Analytics_totalRevenue = Money(20)
  /\ "campaign_id" \in sentParams

\* C8: everywhere revenue is computed from an impression count n it equals
\* n * 0.10, a missing count counting as 0, and a count that does not decrease
\* does not decrease the revenue.
C8_RevenueLinearMissingIsZero ==
  [][/\ Dashboard_totalRevenue' = ExpectedRevenue(Dashboard_stats'.total_impressions)
     /\ Dashboard_todayRevenue' = ExpectedRevenue(Dashboard_stats'.today_impressions)
     /\ Analytics_totalRevenue' = ExpectedRevenue(Analytics_overview'.total_impressions)
     /\ Analytics_todayRevenue' = ExpectedRevenue(Analytics_overview'.today_impressions)
     /\ \A k \in StatClientIds :
          getClientRevenue(k)' = ExpectedRevenue(Clients_statsImpressions(k)')
     /\ (OrZero(Dashboard_stats.total_impressions).num
            <= OrZero(Dashboard_stats'.total_impressions).num) =>
          /\ ~Dashboard_totalRevenue.nan /\ ~Dashboard_totalRevenue'.nan
          /\ Dashboard_totalRevenue.hundredths <= Dashboard_totalRevenue'.hundredths
     /\ (OrZero(Analytics_overview.total_impressions).num
            <= OrZero(Analytics_overview'.total_impressions).num) =>
          Analytics_totalRevenue.hundredths <= Analytics_totalRevenue'.hundredths]_vars

\* the same on the clients and analytics pages alone, where it holds
RevenueLinearOffDashboard ==
  [][/\ Analytics_totalRevenue' = ExpectedRevenue(Analytics_overview'.total_impressions)
     /\ Analytics_todayRevenue' = ExpectedRevenue(Analytics_overview'.today_impressions)
     /\ \A i \in 1..Len(Analytics_campaignStats') :
          Analytics_rowRevenue(i)' = ExpectedRevenue(Analytics_campaignStats'[i].total_impressions)
     /\ \A k \in StatClientIds :
          getClientRevenue(k)' = ExpectedRevenue(Clients_statsImpressions(k)')
     /\ (OrZero(Analytics_overview.total_impressions).num
            <= OrZero(Analytics_overview'.total_impressions).num) =>
          Analytics_totalRevenue.hundredths <= Analytics_totalRevenue'.hundredths]_vars

\* the sum of the counts of the rows of one client, and of all rows
RECURSIVE RowsTotal(_, _)
RowsTotal(rows, clients) ==
  IF rows = <<>> THEN 0
  ELSE (IF Head(rows).client_id \in clients /\ Head(rows).total_impressions.defined
          THEN Head(rows).total_impressions.num ELSE 0)
       + RowsTotal(Tail(rows), clients)

\* C9: on the clients page the impressions of every client are the sum of
\* total_impressions over exactly the rows of that client in the stats response,
\* a row without a count counting 0, and the page's total over all clients is the
\* sum over all rows.
C9_ClientTotalsAreRowSums ==
  /\ \A k \in StatClientIds : Clients_shownImpressions(k) = RowsTotal(statsRes, {k})
  /\ Clients_totalImpressions = RowsTotal(statsRes, StatClientIds \cup {"undefined"})

\* C9 witness: two rows of one client were added up
C9_Witness ==
  /\ route = "/clients"
  /\ Len(statsRes) = 2
  /\ \A i \in 1..2 : statsRes[i].client_id = "k1"
  /\ \A i \in 1..2 : statsRes[i].total_impressions = Num(2)
  /\ Clients_shownImpressions("k1") = 4
  /\ Clients_totalImpressions = 4

\* C10: read back, the output of convertToCSV is a header row of the labels in
\* order followed by one row per record, each of one value per field; so also for
\* an empty sequence of records, where it is the header row alone.
C10_HeaderAndRowPerRecord ==
  csvOut.done =>
    LET rows == parseCSV(csvOut.text)
        items == IF csvData.defined THEN csvData.items ELSE <<>>
    IN /\ Len(rows) = 1 + Len(items)
       /\ rows[1] = [j \in 1..Len(csvFields) |-> csvFields[j].label]
       /\ \A i \in 2..Len(rows) : Len(rows[i]) = Len(csvFields)

\* the same for a non-empty sequence of records none of whose values contains a
\* line break, whose last row is not the empty text and whose labels hold no
\* comma, where it holds
RowPerRecordOfPlainValues ==
  (csvOut.done /\ csvData.defined /\ Len(csvData.items) > 0
     /\ \A j \in 1..Len(csvFields) : ~includes(csvFields[j].label, ",")
     /\ (Len(csvFields) > 1 \/ csvCell(csvData.items[Len(csvData.items)][csvFields[1].key]) # <<>>)
     /\ \A i \in 1..Len(csvData.items) : \A k \in CsvKeys :
          ~includes(csvData.items[i][k].str, "\n")) =>
    LET rows == parseCSV(csvOut.text)
    IN /\ Len(rows) = 1 + Len(csvData.items)
       /\ rows[1] = [j \in 1..Len(csvFields) |-> csvFields[j].label]
       /\ \A i \in 2..Len(rows) : Len(rows[i]) = Len(csvFields)

----------------------------------------------------------------------------
(* CSV export: quoting and reading back                                    *)

\* the characters of s from position i on, each double quote written twice
RECURSIVE QuotesDoubledFrom(_, _)
QuotesDoubledFrom(s, i) ==
  IF i > Len(s) THEN <<>>
  ELSE IF s[i] = "\"" THEN <<"\"", "\"">> \o QuotesDoubledFrom(s, i + 1)
  ELSE <<s[i]>> \o QuotesDoubledFrom(s, i + 1)

\* the field the specification asks for a value
QuotedField(value) ==
  IF value.type = "string"
    THEN IF \E i \in 1..Len(value.str) : value.str[i] \in {",", "\""}
           THEN <<"\"">> \o QuotesDoubledFrom(value.str, 1) \o <<"\"">>
           ELSE value.str
  ELSE IF value.type \in {"null", "undefined"} THEN <<>>
  ELSE NumberToString(value.num)

\* the text of position 'from' on of a row: fields separated by commas
RECURSIVE RowText(_, _, _)
RowText(record, fields, from) ==
  IF from > Len(fields) THEN <<>>
  ELSE QuotedField(record[fields[from].key])
         \o (IF from < Len(fields) THEN <<",">> ELSE <<>>)
         \o RowText(record, fields, from + 1)

\* the text of the rows from record 'from' on, each preceded by a line break
RECURSIVE RowsText(_, _, _)
RowsText(items, fields, from) ==
  IF from > Len(items) THEN <<>>
  ELSE <<"\n">> \o RowText(items[from], fields, 1) \o RowsText(items, fields, from + 1)

\* C11: in the output every string value holding a comma or a double quote stands
\* wrapped in double quotes with its double quotes doubled, every other string
\* value stands verbatim, and a null or undefined value stands as an empty field:
\* after the header line the output is exactly these fields, comma-separated, one
\* line per record.
C11_QuotingOfValues ==
  (csvOut.done /\ csvData.defined /\ Len(csvData.items) > 0) =>
    \E n \in 0..Len(csvOut.text) :
      /\ SubSeq(csvOut.text, 1, n) = join([j \in 1..Len(csvFields) |-> csvFields[j].label], <<",">>)
      /\ SubSeq(csvOut.text, n + 1, Len(csvOut.text)) = RowsText(csvData.items, csvFields, 1)

\* C11 witness: a record with a value holding a quote and a null value, and one
\* with a value holding a comma and a plain value, were converted
C11_Witness ==
  /\ csvOut.done
  /\ csvFields = <<FieldId, FieldAd>>
  /\ csvData.items = <<[id |-> Str(<<"a", "\"", "b">>), ad_id |-> NullValue],
                       [id |-> Str(<<"a", ",", "b">>), ad_id |-> Str(<<"a">>)]>>
  /\ csvOut.text = <<"I", "D", ",", "A", "d", "\n",
                     "\"", "a", "\"", "\"", "b", "\"", ",", "\n",
                     "\"", "a", ",", "b", "\"", ",", "a">>

\* String(value) as the file should give it back: the text of a string or number,
\* nothing for null and undefined
Stringified(value) ==
  IF value.type = "string" THEN value.str
  ELSE IF value.type = "number" THEN NumberToString(value.num)
  ELSE <<>>

\* C12: read back, the output for a non-empty sequence of records is the row of
\* the labels followed, for each record, by the row of its values as text, field
\* by field; also when a value holds a comma, a double quote or a line break or a
\* label holds a comma.
C12_RoundTrip ==
  (csvOut.done /\ csvData.defined /\ Len(csvData.items) > 0) =>
    parseCSV(csvOut.text) =
      <<[j \in 1..Len(csvFields) |-> csvFields[j].label]>>
        \o [i \in 1..Len(csvData.items) |->
              [j \in 1..Len(csvFields) |-> Stringified(csvData.items[i][csvFields[j].key])]]

\* the same for values without line break, labels without comma, and a last row
\* that is not the empty text, where it holds
RoundTripOfPlainValues ==
  (csvOut.done /\ csvData.defined /\ Len(csvData.items) > 0
     /\ \A j \in 1..Len(csvFields) : ~includes(csvFields[j].label, ",")
     /\ (Len(csvFields) > 1 \/ csvCell(csvData.items[Len(csvData.items)][csvFields[1].key]) # <<>>)
     /\ \A i \in 1..Len(csvData.items) : \A k \in CsvKeys :
          ~includes(csvData.items[i][k].str, "\n")) =>
    parseCSV(csvOut.text) =
      <<[j \in 1..Len(csvFields) |-> csvFields[j].label]>>
        \o [i \in 1..Len(csvData.items) |->
              [j \in 1..Len(csvFields) |-> Stringified(csvData.items[i][csvFields[j].key])]]

----------------------------------------------------------------------------
(* Specification SpecUpload: the ad manager with its upload tab, over a    *)
(* store with one campaign and no ad.                                      *)

\* a step of the upload tab
OnUploadTab(A) == A /\ UNCHANGED <<revVars, csvVars, appVars>>

NextUpload ==
  \/ \E r \in Requests : OnCampaignsPage(StoreList(r))
  \/ \E r \in Requests : OnCampaignsPage(StoreGetAds(r))
  \/ \E r \in Requests : OnCampaignsPage(StoreUploadAd(r))
  \/ \E r \in Requests : OnCampaignsPage(RequestFails(r))
  \/ \E m \in Responses : OnCampaignsPage(loadData_done(m))
  \/ \E m \in Responses : OnCampaignsPage(loadCampaignAds_done(m))
  \/ \E m \in Responses : OnUploadTab(handleUploadAd_done(m))
  \/ \E c \in CampaignIds : OnCampaignsPage(CanSend(MaxInflightUpload) /\ openAdManager(c))
  \/ OnCampaignsPage(setIsAdDialogOpen_false)
  \/ \E file \in Files : OnUploadTab(handleFileSelect(file))
  \/ OnUploadTab(CanSend(MaxInflightUpload) /\ handleUploadAd)
  \/ OnUploadTab(progressInterval_fires)

SpecUpload == InitCreate /\ [][NextUpload]_vars

\* C13: an upload request carries the selected file of the selected campaign, a
\* video of at most 100 MB; a file selection never makes a file of another type
\* or a larger file the selected one and sends nothing; an upload click without
\* selected file or campaign sends nothing.
C13_UploadOnlyAcceptedVideo ==
  [][/\ \A m \in Issued :
          m.op = "POST_AD" =>
            /\ startsWithVideo(m.arg.file.type) /\ m.arg.file.size <= 100 * 1024 * 1024
            /\ m.arg.file = adFormFile /\ adFormFile' = adFormFile
            /\ m.id = selectedCampaign /\ selectedCampaign \in CampaignIds
     /\ adFormFile' # adFormFile =>
          /\ adFormFile' = NoFile
               \/ (startsWithVideo(adFormFile'.type) /\ adFormFile'.size <= 100 * 1024 * 1024)
          /\ adFormFile' # NoFile => Issued = {}
     /\ (adFormFile = NoFile \/ selectedCampaign = "") =>
          \A m \in Issued : m.op # "POST_AD"]_vars

\* C13 witness: a video of exactly 100 MB is being uploaded for the selected
\* campaign
C13_Witness ==
  /\ isUploading
  /\ adFormFile = [type |-> "video/mp4", size |-> 100 * 1024 * 1024]
  /\ \E r \in Requests : r.op = "POST_AD" /\ r.id = "c1" /\ r.arg.file = adFormFile

----------------------------------------------------------------------------
(* Failed requests                                                         *)

\* the failed responses a step hands to their handlers
FailuresHandled ==
  {m \in Responses : ~m.ok /\ CopiesIn(m, net') < CopiesIn(m, net)}

\* C14: when a request of the campaigns page fails (load, ad list, status change,
\* ad delete), the campaigns, the stats and the ads of the selected campaign shown
\* before are shown unchanged and the page is not loading.
C14_FailureKeepsDisplayedData ==
  [][FailuresHandled # {} =>
       /\ campaigns' = campaigns
       /\ campaignStats' = campaignStats
       /\ campaignAds' = campaignAds
       /\ loading' = FALSE]_vars

\* the same without the ad list, where it holds
FailureKeepsCampaigns ==
  [][FailuresHandled # {} =>
       /\ campaigns' = campaigns
       /\ campaignStats' = campaignStats
       /\ selectedCampaign' = selectedCampaign
       /\ loading' = FALSE]_vars

----------------------------------------------------------------------------
(* Specification SpecAuth: the provider's session changes, the context     *)
(* follows, the operator opens paths, the rendered page calls the API.     *)

InitAuth ==
  /\ supabaseSession \in Sessions
  /\ AuthMounted
  /\ route = "/dashboard"
  /\ OtherPagesUnmounted
  /\ CampaignsUnmounted
  /\ CsvIdle
  /\ FleetIdle

NextAuth ==
  \/ getSession_resolve /\ UNCHANGED <<camVars, revVars, csvVars, upVars, fleetVars, anVars, loginVars>>
  \/ getSession_then /\ UNCHANGED <<camVars, revVars, csvVars, upVars, fleetVars, anVars, loginVars>>
  \/ \E s \in Sessions : onAuthStateChange(s) /\ UNCHANGED <<camVars, revVars, csvVars, upVars, fleetVars, anVars, loginVars>>
  \/ \E path \in Paths : goto(path) /\ UNCHANGED <<camVars, revVars, csvVars, upVars, fleetVars, anVars, loginVars>>
  \/ Navigate_replace /\ UNCHANGED <<camVars, revVars, csvVars, upVars, fleetVars, anVars, loginVars>>
  \/ api_request /\ UNCHANGED <<camVars, revVars, csvVars, upVars, fleetVars, anVars, loginVars>>
  \/ \E url \in Paths : interceptor_done(url) /\ UNCHANGED <<camVars, revVars, csvVars, upVars, fleetVars, anVars, loginVars>>

SpecAuth == InitAuth /\ [][NextAuth]_vars

\* C15: every request sent to the API carries an Authorization bearer token, whatever
\* the provider's session is when the interceptor reads it.
C15_EveryRequestCarriesToken ==
  sent # NoRequest => sent.Authorization.scheme = "Bearer"

\* what holds instead: a request carries the token of the session the interceptor read,
\* and none when that session had none
RequestCarriesTokenIfAny ==
  [][\A url \in intercepting \ intercepting' : sent' = interceptor(url, supabaseSession)]_vars

\* C16: a page for admins is rendered only to a signed-in user whose role is 'admin', the
\* other protected pages only to a signed-in user; otherwise the route yields the loading
\* screen while loading, else a redirect to /login without user, else a redirect to
\* /unauthorized.  The role is 'admin' only by a token whose claim says so: a token
\* without the claim or one that cannot be decoded gives 'customer'.
C16_RouteGuards ==
  /\ [](\A path \in AdminPaths \cup SignedInPaths :
         /\ App(path) = Page(path) =>
              /\ Auth_user # NoUser
              /\ path \in AdminPaths => Auth_userRole = "admin"
         /\ App(path) # Page(path) =>
              App(path) = IF Auth_loading THEN LoadingScreen
                          ELSE IF Auth_user = NoUser THEN Navigate("/login")
                          ELSE Navigate("/unauthorized"))
  /\ [][/\ Auth_userRole' # Auth_userRole /\ Auth_userRole' = "admin" =>
             Auth_session'.access_token.payload = "role:admin"
        /\ (Auth_session' # Auth_session \/ Auth_userRole' # Auth_userRole)
             /\ Auth_session'.access_token # NoToken =>
               Auth_userRole' = IF Auth_session'.access_token.payload = "role:admin"
                                THEN "admin" ELSE "customer"]_vars

\* a user signed in with a token without the claim sees the dashboard and is sent from
\* /devices to /unauthorized
C16_Witness ==
  /\ ~Auth_loading
  /\ Auth_user = "u1"
  /\ Auth_session.access_token = [parts |-> 3, payload |-> "no-claim"]
  /\ Auth_userRole = "customer"
  /\ App("/dashboard") = Page("/dashboard")
  /\ App("/devices") = Navigate("/unauthorized")
  /\ location = "/unauthorized"

\* an admin is shown the devices page
AdminSeesDevices ==
  /\ location = "/devices"
  /\ App(location) = Page("/devices")

----------------------------------------------------------------------------
(* Impressions                                                             *)

\* C19: impressions are append-only for the dashboard: the number of impression
\* records of a campaign never goes down, and a step in which the store handles a
\* request of the dashboard (a list, a status change, an ad list, an ad delete) or in
\* which a page takes a response leaves the impressions as they are.
C19_ImpressionsAppendOnly ==
  [][/\ \A c \in CampaignIds : dbImpressions'[c] >= dbImpressions[c]
     /\ net' # net => dbImpressions' = dbImpressions]_vars

\* an impression was recorded, its ad deleted and its campaign's status changed, and the
\* page shows the impression in the stats it loaded afterwards
C19_Witness ==
  /\ dbImpressions["c1"] = 1
  /\ "a1" \notin dbAds
  /\ Len(trail["c1"]) > 1
  /\ campaignStats["c1"].present
  /\ campaignStats["c1"].total_impressions = 1

----------------------------------------------------------------------------
(* Specification SpecFleet: two devices, one of them with the one driver;  *)
(* heartbeats, sweeps, the devices page or the dashboard mounted and       *)
(* loading the list, devices and the driver being deleted.  Requests are   *)
(* answered within the ten seconds they are made in, and time stops        *)
(* before the first interval of the timer has passed.                      *)

InitFleet ==
  /\ clock = 0
  /\ threshold \in 1..MaxThreshold
  /\ dbDevices = [d \in DeviceIds |->
                    [present |-> TRUE, status |-> "offline", last_seen |-> None,
                     driver_id |-> IF d = "d1" THEN "r1" ELSE "",
                     city |-> IF d = "d1" THEN "Colombo" ELSE ""]]
  /\ dbDrivers = DriverIds
  /\ fleetNet = EmptyBag
  /\ mounted = ""
  /\ instance = 0
  /\ interval = None
  /\ devices = NoDevices
  /\ dataAt = None
  /\ shownOf = None
  /\ Devices_filter = "all"
  /\ Devices_cityFilter = ""
  /\ Fleet_loading = TRUE
  /\ supabaseSession = NoSession
  /\ AuthMounted
  /\ route = "/dashboard"
  /\ OtherPagesUnmounted
  /\ CampaignsUnmounted
  /\ CsvIdle

\* a step of the store's devices and drivers or of a polling page
OnFleet(A) ==
  A /\ UNCHANGED <<camVars, revVars, csvVars, upVars, authVars, anVars, Devices_filter,
                   Devices_cityFilter>>

CanSendFleet(n) == BagCardinality(fleetNet) < n

NextFleet ==
  \/ \E d \in DeviceIds : OnFleet(Heartbeat(d))
  \/ OnFleet(Sweep)
  \/ \E r \in FleetRequests : OnFleet(StoreListDevices(r))
  \/ \E r \in FleetRequests : OnFleet(StoreDeleteDevice(r))
  \/ \E r \in FleetRequests : \E cleared \in BOOLEAN : OnFleet(StoreDeleteDriver(r, cleared))
  \/ \E r \in FleetRequests : OnFleet(FleetRequestFails(r))
  \/ OnFleet(clock < MaxFleetTime /\ TimePasses(0))
  \/ \E page \in PollingPages : OnFleet(mount(page))
  \/ \E m \in FleetResponses : OnFleet(Fleet_loadData_done(m))
  \/ \E d \in DeviceIds : OnFleet(CanSendFleet(MaxFleetInflight) /\ handleDeleteDevice(d))
  \/ \E m \in FleetResponses : OnFleet(handleDeleteDevice_done(m))
  \/ \E id \in DriverIds : OnFleet(CanSendFleet(MaxFleetInflight) /\ driverAPI_delete_call(id))
  \/ \E m \in FleetResponses : OnFleet(driverAPI_delete_done(m))

SpecFleet == InitFleet /\ [][NextFleet]_vars

----------------------------------------------------------------------------
(* Devices and drivers: the properties                                     *)

Shown == {d \in DeviceIds : devices[d].present}

\* now - last_seen <= T
Fresh(last_seen) == last_seen.some /\ clock - last_seen.at <= threshold

Reclassified ==
  /\ \E d \in DeviceIds : dbDevices'[d].status # dbDevices[d].status
  /\ \A d \in DeviceIds : /\ dbDevices'[d].present = dbDevices[d].present
                          /\ dbDevices'[d].last_seen = dbDevices[d].last_seen

FleetIssued ==
  {m \in BagToSet(fleetNet') : m.dir = "req" /\ CopiesIn(m, fleetNet') > CopiesIn(m, fleetNet)}

FleetTaken == {m \in BagToSet(fleetNet) : CopiesIn(m, fleetNet') < CopiesIn(m, fleetNet)}

\* C18: deleting a driver never deletes a device: the delete of a driver issues the
\* removal of that driver and nothing else; when the store handles it no driver but
\* that one is removed and every
\* device still exists with its fields unchanged, but for a reference to that driver
\* that may be cleared; and nothing is issued when the store handles the request or
\* the caller takes the response.
C18_DriverDeleteKeepsDevices ==
  [][/\ \A r \in FleetIssued : r.op = "DELETE_DRIVER" => FleetIssued = {r}
     /\ \A m \in FleetTaken :
          m.op = "DELETE_DRIVER" =>
            /\ FleetIssued = {}
            /\ dbDrivers' \in {dbDrivers, dbDrivers \ {m.id}}
            /\ \A d \in DeviceIds :
                 \/ dbDevices'[d] = dbDevices[d]
                 \/ /\ dbDevices[d].driver_id = m.id
                    /\ dbDevices'[d] = [dbDevices[d] EXCEPT !.driver_id = ""]]_vars

\* the driver of d1 is deleted and the response taken; d1 exists, seen and classified
\* as before, with its reference to the driver
C18_Witness ==
  /\ "r1" \notin dbDrivers
  /\ fleetNet = EmptyBag
  /\ dbDevices["d1"].present
  /\ dbDevices["d1"].driver_id = "r1"
  /\ dbDevices["d1"].status = "online"

----------------------------------------------------------------------------
(* Specification SpecPoll: the devices page or the dashboard mounted and   *)
(* unmounted while time passes; the timer fires every PollInterval, each   *)
(* request is answered and taken within MaxLatency, and none fails.        *)

InitPoll ==
  /\ InitFleet
  /\ threshold = 1

NextPoll ==
  \/ \E page \in PollingPages : OnFleet(instance < MaxPollMounts /\ mount(page))
  \/ OnFleet(unmount)
  \/ OnFleet(interval_fires)
  \/ \E r \in FleetRequests : OnFleet(StoreListDevices(r))
  \/ \E m \in FleetResponses : OnFleet(Fleet_loadData_done(m))
  \/ OnFleet(clock < MaxPollTime /\ TimePasses(MaxLatency))

SpecPoll == InitPoll /\ [][NextPoll]_vars

\* C20: a polling page reloads at mount and then every 30 seconds while it is mounted,
\* so that, no request failing, the data shown is never older than one poll interval
\* plus one request latency; once the page is unmounted no reload is issued.
C20_PollingKeepsDataFresh ==
  /\ [](mounted # "" /\ dataAt.some => clock - dataAt.at <= PollInterval + MaxLatency)
  /\ [][/\ mounted = "" /\ mounted' # "" => FleetIssued # {} /\ interval' = Some(clock + PollInterval)
        /\ mounted # "" /\ interval = Some(clock) /\ clock' # clock => FALSE
        /\ mounted' = "" => FleetIssued = {} /\ interval' = None]_vars

\* what holds of the reloads: one at mount, the timer set for 30 seconds later and never
\* overrun while the page is mounted, none issued and no timer left after the unmount
ReloadsWhileMounted ==
  [][/\ mounted = "" /\ mounted' # "" => FleetIssued # {} /\ interval' = Some(clock + PollInterval)
     /\ mounted # "" /\ interval = Some(clock) /\ clock' # clock => FALSE
     /\ mounted' = "" => FleetIssued = {} /\ interval' = None]_vars

\* what holds of the age of the data shown: a response that arrives after a later
\* one has been taken is shown in its place, and costs a second latency
FreshWithinTwoLatencies ==
  mounted # "" /\ dataAt.some => clock - dataAt.at <= PollInterval + 2 * MaxLatency

(* Claims about the progress of an ad upload, under SpecUpload. *)

\* C22: in the ad manager the upload progress is 0 whenever isUploading is false, after
\* a successful upload as well as after a failed one; the progress timer never changes
\* the progress once the upload has finished.
C22_ProgressZeroWhenIdle ==
  ~isUploading => uploadProgress = 0

\* what holds: the progress is 0 while no upload runs as long as no upload has failed
ProgressZeroUntilFailure ==
  ~isUploading /\ ~strayInterval => uploadProgress = 0

UploadsInFlight ==
  BagCardinality([m \in {x \in BagToSet(net) : x.op = "POST_AD"} |-> net[m]])

C29_FooterRevenueIsSumOfRows ==
  route = "/analytics" /\ Len(Analytics_campaignStats) > 0 =>
    Analytics_footerRevenue = Times(Num(Analytics_footerImpressions), Analytics_RATE_PER_IMPRESSION)

\* what holds: the footer's revenue is the rate times the overview's total_impressions
FooterRevenueFromOverview ==
  route = "/analytics" =>
    Analytics_footerRevenue = ExpectedRevenue(Analytics_overview.total_impressions)

(* Claims about AuthProvider and the sidebar, under SpecAuth. *)

\* C26: in every state of AuthProvider, whatever the order of the getSession answer, its
\* callback and the onAuthStateChange events, session, user and userRole agree: the
\* user is the session's, the role is null whenever the user is null, and the role of
\* a signed-in user is the one derived from the token of the session held.
C26_AuthStateConsistent ==
  /\ Auth_user = Auth_session.user
  /\ Auth_user = NoUser => Auth_userRole = "null"
  /\ Auth_user # NoUser /\ Auth_session.access_token # NoToken =>
       Auth_userRole = roleOfToken(Auth_session.access_token)

\* what holds: the user is always the one of the session held, the role of a session
\* with a token is the one derived from that token, and every onAuthStateChange event
\* leaves the three consistent
AuthStateConsistentAfterEvent ==
  /\ [](/\ Auth_user = Auth_session.user
        /\ Auth_session.access_token # NoToken =>
             Auth_userRole = roleOfToken(Auth_session.access_token))
  /\ [][supabaseSession' # supabaseSession =>
          /\ Auth_session' = supabaseSession'
          /\ Auth_user' = NoUser => Auth_userRole' = "null"]_vars

Range(seq) == {seq[i] : i \in 1..Len(seq)}

\* C27: for every role, every link of the sidebar leads to a route the guard lets that
\* role render: a role other than admin is offered Overview, Campaigns and Analytics
\* only, an admin also Devices, Drivers and Clients, and no link offered ends at
\* /unauthorized.
C27_SidebarMatchesGuards ==
  /\ Range(navItems(Auth_userRole)) =
       IF Auth_userRole = "admin" THEN SignedInPaths \cup AdminPaths ELSE SignedInPaths
  /\ \A path \in Range(navItems(Auth_userRole)) :
       /\ App(path) # Navigate("/unauthorized")
       /\ LayoutRendered => App(path) = Page(path)

\* a customer is shown the layout on the campaigns page
C27_Witness ==
  /\ LayoutRendered
  /\ location = "/campaigns"
  /\ Auth_userRole = "customer"
  /\ Range(navItems(Auth_userRole)) = {"/dashboard", "/campaigns", "/analytics"}

(* Claims about overlapping reloads of a polling page, under SpecPoll. *)

\* C24: on the Devices and Dashboard pages a response of a reload issued earlier never
\* replaces the data of a reload issued later, so that once all reloads have completed
\* the data shown is the response of the reload issued last.
C24_LatestReloadShown ==
  [][\A m \in FleetTaken :
       m.dir = "res" /\ m.op = "LIST" /\ m.ok /\ mounted # "" /\ m.inst = instance /\ shownOf.some =>
         m.sentAt >= shownOf.at]_vars

\* what holds: the data shown is the whole response of one reload of the page
\* mounted, the one taken last
ShownIsLastTaken ==
  [][\A m \in FleetTaken :
       m.dir = "res" /\ m.op = "LIST" /\ m.ok /\ mounted # "" /\ m.inst = instance =>
         devices' = m.data /\ dataAt' = m.dataAt /\ shownOf' = Some(m.sentAt)]_vars

-----------------------------------------------------------------------------
(* Specification SpecDevices: the Devices page loaded with every list of the  *)
(* model, the operator choosing the filters.                                  *)

\* the statuses a device of a response may carry: the two the store sets, another, none
DeviceStatuses == {"online", "offline", "maintenance", ""}

DeviceRows ==
  {NoDevice} \cup [present : {TRUE}, status : DeviceStatuses, last_seen : {None},
                   driver_id : {""}, city : {"Colombo", ""}]

InitDevices ==
  /\ clock = 0
  /\ threshold = 1
  /\ dbDevices = NoDevices
  /\ dbDrivers = {}
  /\ fleetNet = EmptyBag
  /\ mounted = "/devices"
  /\ instance = 1
  /\ interval = Some(PollInterval)
  /\ devices \in [DeviceIds -> DeviceRows]
  /\ dataAt = Some(0)
  /\ shownOf = Some(0)
  /\ Fleet_loading = FALSE
  /\ Devices_filter = "all"
  /\ Devices_cityFilter = ""
  /\ supabaseSession = NoSession
  /\ AuthMounted
  /\ route = "/dashboard"
  /\ OtherPagesUnmounted
  /\ CampaignsUnmounted
  /\ CsvIdle

NextDevices ==
  \/ \E f \in Filters : setFilter(f) /\ UNCHANGED <<camVars, revVars, csvVars, upVars, authVars, anVars>>
  \/ \E v \in Cities \cup {"all"} :
       setCityFilter(v) /\ UNCHANGED <<camVars, revVars, csvVars, upVars, authVars, anVars>>

SpecDevices == InitDevices /\ [][NextDevices]_vars

Present == {d \in DeviceIds : devices[d].present}

\* C28: on the Devices page the online count plus the offline count is the total, and
\* with no city filter the filters 'online' and 'offline' split the list in two: every
\* device, whatever its status, is listed under exactly one of them, and the rows
\* listed under each are as many as the count on its button.
C28_FiltersPartitionDevices ==
  /\ onlineCount + offlineCount = Cardinality(Present)
  /\ filteredDevicesWhen("online", "") \cup filteredDevicesWhen("offline", "") = Present
  /\ filteredDevicesWhen("online", "") \cap filteredDevicesWhen("offline", "") = {}
  /\ Cardinality(filteredDevicesWhen("online", "")) = onlineCount
  /\ Cardinality(filteredDevicesWhen("offline", "")) = offlineCount
  /\ Devices_cityFilter = "" /\ Devices_filter = "online" => Cardinality(filteredDevices) = onlineCount
  /\ Devices_cityFilter = "" /\ Devices_filter = "offline" => Cardinality(filteredDevices) = offlineCount
  /\ Devices_cityFilter = "" /\ Devices_filter = "all" => filteredDevices = Present

\* the offline filter lists a device without status and one of another status
C28_Witness ==
  /\ Devices_filter = "offline"
  /\ Devices_cityFilter = ""
  /\ devices["d1"].present /\ devices["d1"].status = ""
  /\ devices["d2"].present /\ devices["d2"].status = "maintenance"
  /\ filteredDevices = {"d1", "d2"}
  /\ offlineCount = 2

-----------------------------------------------------------------------------
(* Specification SpecAnalytics: the analytics page mounted, the operator      *)
(* changing the filters and exporting while impressions requests are answered *)
(* in any order or fail.                                                      *)

MaxAnInflight == 2  \* impressions requests and responses in flight

InitAnalytics ==
  /\ ImpressionsUnloaded
  /\ anNet = One(analyticsAPI_impressions(impressionsParams(DisplayLimit)))
  /\ route = "/analytics"
  /\ Dashboard_stats = Dashboard_initialStats
  /\ Clients_campaignStats = EmptyStatsMap
  /\ Analytics_overview = Analytics_initialOverview
  /\ Analytics_campaignStats = <<>>
  /\ Analytics_loading = TRUE
  /\ statsRes = <<>>
  /\ exported = <<>>
  /\ sentParams = {}
  /\ pendingLoads = 1
  /\ CampaignsUnmounted
  /\ CsvIdle
  /\ supabaseSession = NoSession
  /\ AuthMounted
  /\ FleetIdle

OnAnalytics(A) == A /\ UNCHANGED <<camVars, revVars, csvVars, upVars, authVars, fleetVars>>

CanSendAn == BagCardinality(anNet) < MaxAnInflight

\* the operator awaits the download before exporting again
ExportIdle == \A m \in BagToSet(anNet) : m.kind # "export"

NextAnalytics ==
  \/ \E c \in SelectableCampaigns : OnAnalytics(CanSendAn /\ setSelectedCampaign(c))
  \/ \E field \in {"start", "end"} : \E value \in Dates :
       OnAnalytics(CanSendAn /\ setDateRange(field, value))
  \/ OnAnalytics(CanSendAn /\ ExportIdle /\ handleExportCSV)
  \/ \E r \in BagToSet(anNet) : OnAnalytics(StoreImpressions(r))
  \/ \E r \in BagToSet(anNet) : OnAnalytics(ImpressionsRequestFails(r))
  \/ \E m \in BagToSet(anNet) : OnAnalytics(loadImpressions_done(m))
  \/ \E m \in BagToSet(anNet) : OnAnalytics(handleExportCSV_done(m))

SpecAnalytics == InitAnalytics /\ [][NextAnalytics]_vars

AnIssued ==
  {m \in BagToSet(anNet') : m.dir = "req" /\ CopiesIn(m, anNet') > CopiesIn(m, anNet)}

AnTaken == {m \in BagToSet(anNet) : m.dir = "res" /\ CopiesIn(m, anNet') < CopiesIn(m, anNet)}

Limits == {1, DisplayLimit, ExportLimit}

DisplayInFlight == {m \in BagToSet(anNet) : m.kind = "display"}

\* C25: after any sequence of changes of the campaign and the date range, once every
\* impressions request in flight has completed the impressions displayed are the
\* response to the request made with the filters now selected.
C25_ImpressionsMatchFilters ==
  [][\A m \in AnTaken :
       m.ok /\ m.kind = "display" /\ DisplayInFlight' = {} =>
         shownParams' = impressionsParams(DisplayLimit)']_vars

\* what holds: the impressions displayed are the whole response to one request of the
\* page, the one whose response was taken last
ImpressionsAreLastTaken ==
  [][\A m \in AnTaken :
       m.ok /\ m.kind = "display" => Analytics_impressions' = m.data /\ shownParams' = m.params]_vars

-----------------------------------------------------------------------------
(* Specification SpecLoading: the first load of a polling page and of the     *)
(* analytics page, and the sign-in of the login form, every request being     *)
(* answered or rejected in the end.                                           *)

InitLoading ==
  /\ InitFleet
  /\ threshold = 1

OnLogin(A) == A /\ UNCHANGED <<camVars, revVars, csvVars, upVars, fleetVars, anVars>>

AuthProviderStep ==
  \/ getSession_resolve /\ UNCHANGED <<camVars, revVars, csvVars, upVars, fleetVars, anVars, loginVars>>
  \/ getSession_then /\ UNCHANGED <<camVars, revVars, csvVars, upVars, fleetVars, anVars, loginVars>>
  \/ Navigate_replace /\ UNCHANGED <<camVars, revVars, csvVars, upVars, fleetVars, anVars, loginVars>>

SignInAnswered == \E s \in Sessions : OnLogin(signInWithPassword_answers(s))

FleetAnswered ==
  \/ \E r \in FleetRequests : OnFleet(StoreListDevices(r))
  \/ \E r \in FleetRequests : OnFleet(StoreDeleteDevice(r))
  \/ \E r \in FleetRequests : OnFleet(FleetRequestFails(r))

FleetLoaded == \E m \in FleetResponses : OnFleet(Fleet_loadData_done(m))

FleetDeleted == \E m \in FleetResponses : OnFleet(handleDeleteDevice_done(m))

\* the loads of the analytics page answered: both or, one failing, neither
AnalyticsLoaded ==
  \E ok \in BOOLEAN : \E data \in {d \in OverviewResponses : d.today_impressions = d.total_impressions} :
    OnRevenuePages(route = "/analytics" /\ Analytics_loadData(ok, data, <<>>))

NextLoading ==
  \/ AuthProviderStep
  \/ OnLogin(handleLogin)
  \/ SignInAnswered
  \/ OnLogin(handleLogin_done)
  \/ \E page \in PollingPages : OnFleet(mount(page))
  \/ \E d \in DeviceIds : OnFleet(CanSendFleet(MaxFleetInflight) /\ handleDeleteDevice(d))
  \/ FleetAnswered
  \/ FleetLoaded
  \/ FleetDeleted
  \/ OnRevenuePages(navigate("/analytics"))
  \/ AnalyticsLoaded

SpecLoading ==
  /\ InitLoading
  /\ [][NextLoading]_vars
  /\ WF_vars(AuthProviderStep)
  /\ WF_vars(SignInAnswered)
  /\ WF_vars(OnLogin(handleLogin_done))
  /\ WF_vars(FleetAnswered)
  /\ WF_vars(FleetLoaded)
  /\ WF_vars(FleetDeleted)
  /\ WF_vars(AnalyticsLoaded)

\* C30: every request being answered or rejected in the end, a page that starts in
\* loading leaves it, whether its first load succeeds or fails, and once loading is
\* false it never is true again; the login form's loading is true only while a
\* sign-in is in flight, and the form navigates to /dashboard only after a sign-in
\* that returned no error.
C30_LoadingEnds ==
  /\ (mounted # "" /\ Fleet_loading) ~> ~Fleet_loading
  /\ (route = "/analytics" /\ Analytics_loading) ~> ~Analytics_loading
  /\ Login_loading ~> ~Login_loading
  /\ [](Login_loading => signIn # "none")
  /\ [][/\ mounted # "" /\ ~Fleet_loading => ~Fleet_loading'
        /\ route = "/analytics" /\ ~Analytics_loading => ~Analytics_loading'
        /\ location = "/login" /\ location' = "/dashboard" => signIn = "ok" /\ Auth_user' # NoUser
        /\ Login_loading' /\ ~Login_loading => signIn' = "pending"]_vars

\* the first load of the devices page and that of the analytics page have failed and
\* both pages have left loading; the operator has signed in at the second attempt
C30_Witness ==
  /\ mounted = "/devices" /\ ~Fleet_loading /\ ~dataAt.some
  /\ route = "/analytics" /\ ~Analytics_loading /\ Analytics_overview = Analytics_initialOverview
  /\ location = "/dashboard" /\ Auth_user # NoUser /\ ~Login_loading
====
